---- MODULE Spec2Model ----
(***************************************************************************)
(* Model of the UK broadband comparison scraper: the Orchestrator          *)
(* (src/src/orchestrator.py), the per-provider scrape workflows            *)
(* (src/src/scrapers/*.py) and the DataProcessor                           *)
(* (src/src/utils/data_processor.py).                                      *)
(*                                                                         *)
(* Python values are records [k, n, s]: k is the Python type ("absent" is  *)
(* a key that is not in the dict), n the number (an int as itself, a float *)
(* in units of 1/Scale) and s the characters of a str.                     *)
(***************************************************************************)
EXTENDS Integers, Sequences, FiniteSets, TLC

\* ------------------------------------------------------------------------
\* Bounds of the model
\* ------------------------------------------------------------------------
\* decimal digits kept of a float
FracDigits == 2
\* longest list handed to process_results
MaxDeals == 2
\* the clock readings datetime.now() can give
MaxClock == 2

Scale == 10 ^ FracDigits

\* ------------------------------------------------------------------------
\* Python values
\* ------------------------------------------------------------------------
Absent == [k |-> "absent", n |-> 0, s |-> <<>>]
None_ == [k |-> "none", n |-> 0, s |-> <<>>]
PyInt(i) == [k |-> "int", n |-> i, s |-> <<>>]
PyFloat(x) == [k |-> "float", n |-> x, s |-> <<>>]
PyStr(cs) == [k |-> "str", n |-> 0, s |-> cs]
\* the float units.hundredths, e.g. Dec(25, 99) is 25.99
Dec(units, hundredths) == PyFloat(units * Scale + hundredths * (Scale \div 100))

IsNum(v) == v.k \in {"int", "float"}
\* the number a Python int or float stands for, in units of 1/Scale
NumVal(v) == IF v.k = "int" THEN v.n * Scale ELSE v.n
\* Python truthiness of a value: None, 0, 0.0 and "" are false
Truthy(v) ==
    CASE v.k \in {"absent", "none"} -> FALSE
      [] v.k \in {"int", "float"} -> v.n # 0
      [] OTHER -> Len(v.s) > 0

\* ------------------------------------------------------------------------
\* Text: a str is a sequence of one-character strings
\* ------------------------------------------------------------------------
Digits == <<"0", "1", "2", "3", "4", "5", "6", "7", "8", "9">>
IsDigit(c) == \E d \in 1..10 : Digits[d] = c
DigitVal(c) == (CHOOSE d \in 1..10 : Digits[d] = c) - 1

\* str.lower() on the letters the texts use
Lower(c) ==
    CASE c = "G" -> "g"
      [] c = "B" -> "b"
      [] c = "M" -> "m"
      [] c = "Y" -> "y"
      [] c = "F" -> "f"
      [] c = "L" -> "l"
      [] c = "A" -> "a"
      [] c = "T" -> "t"
      [] OTHER -> c
LowerText(cs) == [i \in 1..Len(cs) |-> Lower(cs[i])]

\* pat in cs (substring test)
Contains(cs, pat) ==
    \E i \in 1..(Len(cs) - Len(pat) + 1) : SubSeq(cs, i, i + Len(pat) - 1) = pat

RECURSIVE DigitsToNat(_)
\* int() of a run of digits
DigitsToNat(ds) ==
    IF Len(ds) = 0 THEN 0
    ELSE 10 * DigitsToNat(SubSeq(ds, 1, Len(ds) - 1)) + DigitVal(ds[Len(ds)])

RECURSIVE NatToDigits(_)
\* str() of a non-negative int
NatToDigits(m) ==
    IF m < 10 THEN <<Digits[m + 1]>>
    ELSE NatToDigits(m \div 10) \o <<Digits[(m % 10) + 1]>>

\* position of the first digit of cs, 0 when it has none
FirstDigit(cs) ==
    IF \E i \in 1..Len(cs) : IsDigit(cs[i])
    THEN CHOOSE i \in 1..Len(cs) : IsDigit(cs[i]) /\ \A j \in 1..(i - 1) : ~IsDigit(cs[j])
    ELSE 0

\* last position of the run of digits that starts at i
RunEnd(cs, i) ==
    CHOOSE j \in i..Len(cs) :
        /\ \A m \in i..j : IsDigit(cs[m])
        /\ (j = Len(cs) \/ ~IsDigit(cs[j + 1]))

\* re.search(r'(\d+)', cs).group(1): the first run of digits (<<>>: no match)
SearchInt(cs) ==
    LET p == FirstDigit(cs) IN
    IF p = 0 THEN <<>> ELSE SubSeq(cs, p, RunEnd(cs, p))

\* re.search(r'(\d+\.?\d*)', cs).group(1) (<<>>: no match)
SearchDecimal(cs) ==
    LET p == FirstDigit(cs) IN
    IF p = 0 THEN <<>>
    ELSE LET e1 == RunEnd(cs, p)
             e2 == IF e1 < Len(cs) /\ cs[e1 + 1] = "." THEN e1 + 1 ELSE e1
             e3 == IF e2 > e1 /\ e2 < Len(cs) /\ IsDigit(cs[e2 + 1])
                   THEN RunEnd(cs, e2 + 1) ELSE e2
         IN SubSeq(cs, p, e3)

\* float(cs) succeeds, for a cs of digits and dots only
FloatOK(cs) ==
    /\ \E i \in 1..Len(cs) : IsDigit(cs[i])
    /\ Cardinality({i \in 1..Len(cs) : cs[i] = "."}) <= 1

\* float(cs) in units of 1/Scale, for a cs with FloatOK(cs)
FloatOf(cs) ==
    LET dots == {i \in 1..Len(cs) : cs[i] = "."}
        dot == IF dots = {} THEN Len(cs) + 1 ELSE CHOOSE i \in dots : TRUE
        ip == SubSeq(cs, 1, dot - 1)
        fp == SubSeq(cs, dot + 1, Len(cs))
        fd == [i \in 1..FracDigits |-> IF i <= Len(fp) THEN fp[i] ELSE "0"]
    IN DigitsToNat(ip) * Scale + DigitsToNat(fd)

\* str(x) of a float x given in units of 1/Scale: sign, integer part, ".",
\* and the fraction digits without trailing zeros (at least one)
StrOfFloat(x) ==
    LET a == IF x < 0 THEN 0 - x ELSE x
        fr == a % Scale
        fd == [i \in 1..FracDigits |-> Digits[((fr \div (10 ^ (FracDigits - i))) % 10) + 1]]
        keep == IF fr = 0 THEN 1
                ELSE CHOOSE j \in 1..FracDigits :
                        /\ fd[j] # "0"
                        /\ \A m \in (j + 1)..FracDigits : fd[m] = "0"
    IN (IF x < 0 THEN <<"-">> ELSE <<>>)
         \o NatToDigits(a \div Scale) \o <<".">> \o SubSeq(fd, 1, keep)

\* str(value) of an int, a float or a str
StrOf(v) ==
    CASE v.k = "str" -> v.s
      [] v.k = "float" -> StrOfFloat(v.n)
      [] v.k = "int" ->
            (IF v.n < 0 THEN <<"-">> ELSE <<>>) \o NatToDigits(IF v.n < 0 THEN 0 - v.n ELSE v.n)
      [] OTHER -> <<"N", "o", "n", "e">>

\* ------------------------------------------------------------------------
\* DataProcessor (src/src/utils/data_processor.py)
\* ------------------------------------------------------------------------
\* the keys of a deal dict; "__class__" tells a dict from a list element
\* that is no dict
Fields ==
    {"__class__", "provider", "deal_name", "monthly_price", "upfront_cost",
     "download_speed", "upload_speed", "contract_length", "total_contract_cost",
     "extraction_timestamp", "data_allowance", "router_included",
     "installation_type", "postcode", "technology_type"}

DictClass == PyStr(<<"dict">>)
EmptyDeal == [f \in Fields |-> IF f = "__class__" THEN DictClass ELSE Absent]
\* a list element that is None instead of a dict
NotADict == [f \in Fields |-> IF f = "__class__" THEN PyStr(<<"NoneType">>) ELSE Absent]
IsDict(d) == d["__class__"] = DictClass
\* key in deal
Has(d, f) == d[f].k # "absent"
\* deal.get(key): None for a missing key
Get(d, f) == IF Has(d, f) THEN d[f] ELSE None_

NotCurrency(c) == c \notin {"£", "$", "€", ","}
DigitOrDot(c) == IsDigit(c) \/ c = "."

clean_price(value) ==
    IF value.k = "none" THEN None_
    ELSE IF IsNum(value) THEN PyFloat(NumVal(value))
    ELSE LET cleaned == SelectSeq(SelectSeq(StrOf(value), NotCurrency), DigitOrDot)
         IN IF FloatOK(cleaned) THEN PyFloat(FloatOf(cleaned)) ELSE None_

clean_speed(value) ==
    IF value.k = "none" THEN None_
    ELSE IF IsNum(value) THEN PyFloat(NumVal(value))
    ELSE LET text == LowerText(StrOf(value))
             match == SearchDecimal(text)
         IN IF (Contains(text, <<"g", "b">>) \/ Contains(text, <<"g", "i", "g">>))
               /\ match # <<>>
            THEN PyFloat(FloatOf(match) * 1000)
            ELSE IF match # <<>> THEN PyFloat(FloatOf(match)) ELSE None_

clean_contract_length(value) ==
    IF value.k = "none" THEN None_
    ELSE IF value.k = "int" THEN value
    ELSE LET text == LowerText(StrOf(value))
             match == SearchInt(text)
         IN IF match = <<>> THEN None_
            ELSE IF Contains(text, <<"y", "e", "a", "r">>)
                 THEN PyInt(DigitsToNat(match) * 12)
                 ELSE PyInt(DigitsToNat(match))

required_fields == <<"provider", "monthly_price", "download_speed">>

\* validate_deal with the price test written "< 0": a price of 0 is accepted
validate_deal_zero_price(deal) ==
    IF \E i \in 1..Len(required_fields) :
            ~Has(deal, required_fields[i]) \/ deal[required_fields[i]].k = "none"
    THEN "False"
    ELSE IF ~IsNum(deal["monthly_price"]) THEN "TypeError"
    ELSE IF NumVal(deal["monthly_price"]) < 0 \/ NumVal(deal["monthly_price"]) > 200 * Scale
         THEN "False"
    ELSE IF ~IsNum(deal["download_speed"]) THEN "TypeError"
    ELSE IF NumVal(deal["download_speed"]) < 10 * Scale
            \/ NumVal(deal["download_speed"]) > 10000 * Scale
         THEN "False"
    ELSE "True"

\* "True", "False", or "TypeError" when a comparison of a str with a number raises
validate_deal(deal) ==
    IF \E i \in 1..Len(required_fields) :
            ~Has(deal, required_fields[i]) \/ deal[required_fields[i]].k = "none"
    THEN "False"
    ELSE IF ~IsNum(deal["monthly_price"]) THEN "TypeError"
    ELSE IF NumVal(deal["monthly_price"]) <= 0 \/ NumVal(deal["monthly_price"]) > 200 * Scale
         THEN "False"
    ELSE IF ~IsNum(deal["download_speed"]) THEN "TypeError"
    ELSE IF NumVal(deal["download_speed"]) < 10 * Scale
            \/ NumVal(deal["download_speed"]) > 10000 * Scale
         THEN "False"
    ELSE "True"

\* datetime.now().isoformat() at clock reading t
Timestamp(t) == PyStr(<<"T">> \o NatToDigits(t))

\* clean_price(value) or 0.0
PriceOrZero(value) ==
    IF Truthy(clean_price(value)) THEN clean_price(value) ELSE PyFloat(0)

\* lines 167-180: the five numeric fields, each cleaned when its key is present
CleanNumericFields(deal) ==
    [f \in Fields |->
        IF ~Has(deal, f) THEN deal[f]
        ELSE CASE f = "monthly_price" -> clean_price(deal[f])
               [] f = "upfront_cost" -> PriceOrZero(deal[f])
               [] f \in {"download_speed", "upload_speed"} -> clean_speed(deal[f])
               [] f = "contract_length" -> clean_contract_length(deal[f])
               [] OTHER -> deal[f]]

\* lines 183-187: the total cost, computed when the key is not there and
\* monthly_price and contract_length are truthy
FillTotalCost(n) ==
    IF ~Has(n, "total_contract_cost")
       /\ Truthy(Get(n, "monthly_price"))
       /\ Truthy(Get(n, "contract_length"))
    THEN [n EXCEPT !["total_contract_cost"] =
            PyFloat((IF Has(n, "upfront_cost") THEN NumVal(n["upfront_cost"]) ELSE 0)
                    + NumVal(n["monthly_price"]) * n["contract_length"].n)]
    ELSE n

\* FillDefaults stamping the clock reading on every call
FillDefaults_restamp(n, now) ==
    [f \in Fields |->
        IF f = "extraction_timestamp" THEN Timestamp(now)
        ELSE IF Has(n, f) THEN n[f]
        ELSE CASE f = "data_allowance" -> PyStr(<<"Unlimited">>)
               [] f = "router_included" -> None_
               [] f = "installation_type" -> PyStr(<<"Standard">>)
               [] OTHER -> n[f]]

\* lines 190-196: the timestamp when it is not there, and the defaults
FillDefaults(n, now) ==
    [f \in Fields |->
        IF Has(n, f) THEN n[f]
        ELSE CASE f = "extraction_timestamp" -> Timestamp(now)
               [] f = "data_allowance" -> PyStr(<<"Unlimited">>)
               [] f = "router_included" -> None_
               [] f = "installation_type" -> PyStr(<<"Standard">>)
               [] OTHER -> n[f]]

\* normalize_deal of a dict, at clock reading now
NormalizeDict(deal, now) == FillDefaults(FillTotalCost(CleanNumericFields(deal)), now)

\* [raised, v]: deal.copy() raises AttributeError for an element that is no dict
normalize_deal(deal, now) ==
    IF IsDict(deal)
    THEN [raised |-> FALSE, v |-> NormalizeDict(deal, now)]
    ELSE [raised |-> TRUE, v |-> deal]

RECURSIVE process_results_break(_, _)
\* process_results leaving the loop at the first element it does not accept
process_results_break(deals, now) ==
    IF Len(deals) = 0 THEN <<>>
    ELSE LET normalized == normalize_deal(deals[1], now)
         IN IF ~normalized.raised /\ validate_deal(normalized.v) = "True"
            THEN <<normalized.v>> \o process_results_break(Tail(deals), now)
            ELSE <<>>

RECURSIVE process_results(_, _)
\* the list process_results returns; every exception of the loop body is
\* caught in the loop and the element skipped
process_results(deals, now) ==
    IF Len(deals) = 0 THEN <<>>
    ELSE LET normalized == normalize_deal(deals[Len(deals)], now)
             before == process_results(SubSeq(deals, 1, Len(deals) - 1), now)
         IN IF normalized.raised THEN before
            ELSE IF validate_deal(normalized.v) = "True"
                 THEN Append(before, normalized.v)
                 ELSE before

\* ------------------------------------------------------------------------
\* State
\* ------------------------------------------------------------------------
VARIABLES
    \* DataProcessor calls: the call made so far, its arguments and results
    dp_pc,        \* "input", "validated", "normalized", "renormalized", "processed"
    dp_deal,      \* the dict handed to validate_deal / normalize_deal
    dp_list,      \* the list handed to process_results
    dp_now,       \* the clock reading of the first call
    dp_now2,      \* the clock reading of the second normalize_deal call
    dp_valid,     \* what validate_deal(dp_deal) returned
    dp_norm,      \* what normalize_deal(dp_deal) returned
    dp_norm2,     \* what normalize_deal of that result returned
    dp_out        \* what process_results(dp_list) returned

dpvars == <<dp_pc, dp_deal, dp_list, dp_now, dp_now2, dp_valid, dp_norm, dp_norm2, dp_out>>

VARIABLES
    \* Orchestrator and the scrapers it runs
    providers,    \* self.providers, the provider names in run order
    concurrent,   \* self.concurrent
    o_pc,         \* where run() stands: "loop", "sleep", "gather", "collected", "done"
    idx,          \* the position of the sequential loop in self.providers
    all_results,  \* all_results of run(), the raw records collected so far
    processed,    \* processed_results of run()
    exported,     \* the formats _export_results has written
    returned,     \* what run() returned
    scrapers      \* per provider of the run: its _run_scraper call and session

orchvars ==
    <<providers, concurrent, o_pc, idx, all_results, processed, exported, returned, scrapers>>

VARIABLES
    \* one scrape() call followed in detail, and the run() around it
    sc_pc,        \* where scrape() stands: "cookies", "postcode", "address", "entry",
                  \* "cards", "enumerate", "switch", "returned", "done"
    sc_provider,  \* the provider whose scraper runs
    sc_address,   \* the address argument of scrape() (preferred_address)
    sc_cookies,   \* what the last handle_cookies() did: "True", "False", "raise"
    sc_entry,     \* the postcode and address step: its locals and what the page showed
    sc_page,      \* the page: contract term shown, technology label, cards rendered
    sc_loop,      \* the locals of _scrape_cards
    sc_all_deals, \* all_deals of scrape()
    sc_ret,       \* what scrape() returned or raised
    sc_processed, \* processed_results of run()
    sc_returned   \* what run() returned

scvars ==
    <<sc_pc, sc_provider, sc_address, sc_cookies, sc_entry, sc_page, sc_loop, sc_all_deals,
      sc_ret, sc_processed, sc_returned>>
VARIABLES
    \* one text handed to the extraction function of a field and to the
    \* normalizer's cleaning function of the same field
    tx_field,     \* "price", "speed" or "contract_length"
    tx_text,      \* the argument: None or a str
    tx_extracted, \* what BaseScraper.extract_<field> returned or raised
    tx_cleaned    \* what DataProcessor.clean_<field> returned

VARIABLES
    \* one call of Orchestrator._run_concurrent, with the order its tasks end in
    g_pc,          \* "idle", "gather", "collected"
    g_providers,   \* self.providers
    g_outs,        \* per task: NoValue while it runs, then what _run_scraper
                   \* returned or raised
    g_finished,    \* the tasks that ended, in the order they ended
    g_all_results  \* all_results of _run_concurrent

VARIABLES
    \* main() around Orchestrator.run
    exit_status    \* <<n>> once main() returned n; NotExited until then

VARIABLES
    \* one call of handle_cookies of SkyScraper or VirginMediaScraper
    c_pc,        \* "idle", "while", "cycle", "done"
    c_provider,  \* "sky" or "virgin_media"
    c_frames,    \* the child frames of the page
    c_page,      \* per document, the consent banner it shows or will show
    c_late,      \* the banner is not there yet
    c_clock,     \* time.monotonic() since the call, in units of 100 ms
    c_pos,       \* place in the cycle: the next (context, selector) to try
    c_cycle,     \* the attempts of the current poll cycle, in order
    c_result     \* what handle_cookies returned: <<>> until it has, then <<b>>

VARIABLES
    \* one call of VirginMediaScraper.select_first_address_and_continue
    v_pc,        \* "idle", "called", "returned"
    v_page,      \* what the page shows at the address step
    v_trace,     \* the selection and confirm operations made, in order
    v_result     \* <<>> until the call returned, then <<b>>

txvars == <<tx_field, tx_text, tx_extracted, tx_cleaned>>
gvars == <<g_pc, g_providers, g_outs, g_finished, g_all_results>>
cvars == <<c_pc, c_provider, c_frames, c_page, c_late, c_clock, c_pos, c_cycle, c_result>>
vvars == <<v_pc, v_page, v_trace, v_result>>

\* the variables of the checks around the three processes above
xvars == <<txvars, gvars, exit_status, cvars, vvars>>


\* ------------------------------------------------------------------------
\* Inputs of the DataProcessor calls
\* ------------------------------------------------------------------------
T_25_99 == <<"£", "2", "5", ".", "9", "9">>
T_9_99 == <<"£", "9", ".", "9", "9">>
T_invalid == <<"i", "n", "v", "a", "l", "i", "d">>
T_free == <<"f", "r", "e", "e">>
T_100_Mbps == <<"1", "0", "0", " ", "M", "b", "p", "s">>
T_20_Mbps == <<"2", "0", " ", "M", "b", "p", "s">>
T_1_5_Gb == <<"1", ".", "5", " ", "G", "b">>
T_2_years == <<"2", " ", "y", "e", "a", "r", "s">>
T_18_months == <<"1", "8", " ", "m", "o", "n", "t", "h", "s">>

PriceInputs ==
    {Absent, None_, PyInt(30), PyInt(0), PyInt(0 - 10), Dec(200, 0), Dec(200, 1),
     PyStr(T_25_99), PyStr(T_invalid)}
SpeedInputs ==
    {Absent, None_, PyInt(100), Dec(9, 99), PyInt(10), PyInt(10000), PyInt(10001),
     PyStr(T_1_5_Gb), PyStr(T_100_Mbps)}
ContractInputs ==
    {Absent, None_, PyInt(24), Dec(24, 50), Dec(0 - 3, 0), PyStr(T_2_years),
     PyStr(T_18_months)}
UpfrontInputs == {Absent, PyStr(T_9_99), PyStr(T_free)}
ProviderInputs == {Absent, None_, PyStr(<<"Sky">>)}

DealInputs ==
    {[EmptyDeal EXCEPT !["provider"] = pr, !["monthly_price"] = mp,
                       !["download_speed"] = ds, !["contract_length"] = cl,
                       !["upfront_cost"] = uc, !["upload_speed"] = us,
                       !["total_contract_cost"] = tc, !["extraction_timestamp"] = ts] :
        pr \in ProviderInputs, mp \in PriceInputs, ds \in SpeedInputs,
        cl \in ContractInputs, uc \in UpfrontInputs,
        us \in {Absent, PyStr(T_20_Mbps)},
        tc \in {Absent, Dec(500, 0)},
        ts \in {Absent, Timestamp(0)}}

RawDeal(mp, ds) ==
    [EmptyDeal EXCEPT !["provider"] = PyStr(<<"Sky">>), !["monthly_price"] = mp,
                      !["download_speed"] = ds, !["contract_length"] = PyStr(T_18_months)]

\* the elements of the lists handed to process_results
ListInputs ==
    {RawDeal(PyStr(T_25_99), PyStr(T_100_Mbps)), RawDeal(PyInt(30), PyInt(100)),
     RawDeal(PyInt(30), Absent), RawDeal(PyInt(250), PyInt(100)),
     RawDeal(PyStr(T_invalid), PyStr(T_1_5_Gb)), NotADict}

SeqsUpTo(S, n) == UNION {[1..m -> S] : m \in 0..n}

NoValue == [kind |-> "none", deals |-> <<>>]

\* no orchestrator is running (checks of the DataProcessor alone)
OrchIdle ==
    /\ providers = <<>>
    /\ concurrent = FALSE
    /\ o_pc = "idle"
    /\ idx = 1
    /\ all_results = <<>>
    /\ processed = <<>>
    /\ exported = {}
    /\ returned = NoValue
    /\ scrapers = <<>>

\* the postcode and address step before it ran
NoEntry ==
    [attempt |-> 0, input |-> 0, cards_loaded |-> FALSE, result |-> "-",
     candidates |-> <<>>, selected |-> 0]
\* a page that shows no cards yet
NoPage == [term |-> 24, label |-> <<>>, rendered |-> <<>>]
\* _scrape_cards before its loop
NoLoop == [index |-> 0, stable_cycles |-> 0, seen_ids |-> {}, parsed |-> <<>>, deals |-> <<>>]

\* no scrape() is followed in detail (checks of the other specifications)
ScrapeIdle ==
    /\ sc_pc = "idle"
    /\ sc_provider = "none"
    /\ sc_address = None_
    /\ sc_cookies = "-"
    /\ sc_entry = NoEntry
    /\ sc_page = NoPage
    /\ sc_loop = NoLoop
    /\ sc_all_deals = <<>>
    /\ sc_ret = NoValue
    /\ sc_processed = <<>>
    /\ sc_returned = NoValue
\* a function that was not called yet
NotCalled == [raised |-> FALSE, v |-> Absent]

\* no text function is under check
TextIdle ==
    /\ tx_field = "none"
    /\ tx_text = None_
    /\ tx_extracted = NotCalled
    /\ tx_cleaned = NotCalled

\* no _run_concurrent is followed task by task
GatherIdle ==
    /\ g_pc = "idle"
    /\ g_providers = <<>>
    /\ g_outs = <<>>
    /\ g_finished = <<>>
    /\ g_all_results = <<>>

\* main() has not returned: no exit status yet
NotExited == <<>>

\* no handle_cookies is followed attempt by attempt
ConsentIdle ==
    /\ c_pc = "idle"
    /\ c_provider = "none"
    /\ c_frames = <<>>
    /\ c_page = <<>>
    /\ c_late = FALSE
    /\ c_clock = 0
    /\ c_pos = 0
    /\ c_cycle = <<>>
    /\ c_result = <<>>

\* no address step of Virgin Media is followed
AddressIdle ==
    /\ v_pc = "idle"
    /\ v_page = <<>>
    /\ v_trace = <<>>
    /\ v_result = <<>>

XIdle ==
    /\ TextIdle
    /\ GatherIdle
    /\ exit_status = NotExited
    /\ ConsentIdle
    /\ AddressIdle

DPIdle ==
    /\ dp_pc = "idle"
    /\ dp_deal = EmptyDeal
    /\ dp_list = <<>>
    /\ dp_now = 0
    /\ dp_now2 = 0
    /\ dp_valid = "-"
    /\ dp_norm = [raised |-> FALSE, v |-> EmptyDeal]
    /\ dp_norm2 = [raised |-> FALSE, v |-> EmptyDeal]
    /\ dp_out = <<>>

\* a caller holds either one record or a list of raw records
DPInit ==
    /\ dp_pc = "input"
    /\ \/ dp_deal \in DealInputs \cup {NotADict} /\ dp_list = <<>>
       \/ dp_deal = EmptyDeal /\ dp_list \in SeqsUpTo(ListInputs, MaxDeals) \ {<<>>}
    /\ dp_now = 0
    /\ dp_now2 = 0
    /\ dp_valid = "-"
    /\ dp_norm = [raised |-> FALSE, v |-> EmptyDeal]
    /\ dp_norm2 = [raised |-> FALSE, v |-> EmptyDeal]
    /\ dp_out = <<>>
    /\ OrchIdle
    /\ ScrapeIdle
    /\ XIdle

\* DataProcessor.validate_deal(dp_deal)
Validate ==
    /\ dp_pc = "input"
    /\ dp_list = <<>>
    /\ IsDict(dp_deal)
    /\ dp_valid' = validate_deal(dp_deal)
    /\ dp_pc' = "validated"
    /\ UNCHANGED <<dp_deal, dp_list, dp_now, dp_now2, dp_norm, dp_norm2, dp_out>>
    /\ UNCHANGED <<orchvars, scvars, xvars>>

\* DataProcessor.normalize_deal(dp_deal)
Normalize ==
    /\ dp_pc = "input"
    /\ dp_list = <<>>
    /\ \E t \in 1..MaxClock :
        /\ dp_now' = t
        /\ dp_norm' = normalize_deal(dp_deal, t)
    /\ dp_pc' = "normalized"
    /\ UNCHANGED <<dp_deal, dp_list, dp_now2, dp_valid, dp_norm2, dp_out>>
    /\ UNCHANGED <<orchvars, scvars, xvars>>

\* DataProcessor.normalize_deal of the record the first call returned, later
NormalizeAgain ==
    /\ dp_pc = "normalized"
    /\ ~dp_norm.raised
    /\ \E t \in dp_now..(MaxClock + 1) :
        /\ dp_now2' = t
        /\ dp_norm2' = normalize_deal(dp_norm.v, t)
    /\ dp_pc' = "renormalized"
    /\ UNCHANGED <<dp_deal, dp_list, dp_now, dp_valid, dp_norm, dp_out>>
    /\ UNCHANGED <<orchvars, scvars, xvars>>

\* DataProcessor.process_results(dp_list)
Process ==
    /\ dp_pc = "input"
    /\ dp_list # <<>>
    /\ \E t \in 1..MaxClock :
        /\ dp_now' = t
        /\ dp_out' = process_results(dp_list, t)
    /\ dp_pc' = "processed"
    /\ UNCHANGED <<dp_deal, dp_list, dp_now2, dp_valid, dp_norm, dp_norm2>>
    /\ UNCHANGED <<orchvars, scvars, xvars>>

DPNext == Validate \/ Normalize \/ NormalizeAgain \/ Process

vars == <<dpvars, orchvars, scvars, xvars>>

SpecDP == DPInit /\ [][DPNext]_vars

\* ------------------------------------------------------------------------
\* Scrapers: the steps of scrape() and the browser session of each class
\* ------------------------------------------------------------------------
\* bound: providers of one run
MaxProviders == 2

\* Orchestrator.SCRAPER_CLASSES, in declaration order
SCRAPER_CLASSES == <<"sky", "bt", "ee", "hyperoptic", "virgin_media", "vodafone">>
Providers == {SCRAPER_CLASSES[k] : k \in DOMAIN SCRAPER_CLASSES}

\* the classes that keep BaseScraper.initialize_browser and navigate_to_page
BaseSession == {"ee", "hyperoptic", "vodafone"}

\* self.providers after __init__: known names, each once; the runs checked are
\* over up to MaxProviders names that follow one another in SCRAPER_CLASSES,
\* starting at any of them
ProviderLists ==
    {[j \in 1..n |-> SCRAPER_CLASSES[((k + j - 2) % Len(SCRAPER_CLASSES)) + 1]] :
        k \in DOMAIN SCRAPER_CLASSES, n \in 0..MaxProviders}

\* the steps scrape() awaits, per class, in program order
StepsOf(p) ==
    CASE p = "sky" -> <<"launch", "goto", "cookies", "extract">>
      [] p = "bt" -> <<"launch", "goto", "cookies", "postcode_address", "extract">>
      [] p = "virgin_media" ->
            <<"launch", "goto", "cookies", "postcode", "address", "choose", "extract">>
      [] OTHER -> <<"launch", "goto", "cookies", "postcode", "address", "extract">>

NextStep(p, step) ==
    LET k == CHOOSE j \in DOMAIN StepsOf(p) : StepsOf(p)[j] = step
    IN IF k < Len(StepsOf(p)) THEN StepsOf(p)[k + 1] ELSE "return"

\* the resources of a Playwright session, in the order they are created; a
\* session is the set of those that are open
Resources == <<"driver", "browser", "context", "page">>
NoSession == {}

\* the attributes of a scraper object that close() reads
Attrs == {"page", "browser", "playwright", "_context", "_browser", "_pw", "_owns_playwright"}
NoAttrs == [a \in Attrs |-> FALSE]

\* the session after the first `stage` of the four creation calls succeeded
LaunchedSession(stage) == {Resources[k] : k \in 1..stage}

\* the attributes set by then: BaseScraper.initialize_browser stores the driver
\* in self.playwright and the browser in self.browser; the _ensure_page of Sky,
\* Virgin Media and BT stores them in self._pw and self._browser, and only Sky
\* and Virgin Media alias self.browser once the page exists
LaunchedAttrs(p, stage) ==
    IF p \in BaseSession
    THEN [NoAttrs EXCEPT !["playwright"] = stage >= 1, !["browser"] = stage >= 2,
                         !["page"] = stage = 4]
    ELSE [NoAttrs EXCEPT !["_owns_playwright"] = TRUE, !["_pw"] = stage >= 1,
                         !["_browser"] = stage >= 2, !["_context"] = stage >= 3,
                         !["page"] = stage = 4,
                         !["browser"] = stage = 4 /\ p # "bt"]

\* one close call on resource r: closing the driver ends everything it
\* launched, closing the browser its contexts and pages, a context its pages
Owned(r) ==
    CASE r = "driver" -> {"driver", "browser", "context", "page"}
      [] r = "browser" -> {"browser", "context", "page"}
      [] r = "context" -> {"context", "page"}
      [] OTHER -> {"page"}

CloseCall(os, r) == os \ Owned(r)

\* BaseScraper.close: page, browser and driver are closed inside one try, so
\* a call that raises skips the calls after it; `fails` are the resources
\* whose close call raises
BaseClose(os, self, fails) ==
    IF self["page"] /\ "page" \in fails THEN os
    ELSE LET os1 == IF self["page"] THEN CloseCall(os, "page") ELSE os
         IN IF self["browser"] /\ "browser" \in fails THEN os1
            ELSE LET os2 == IF self["browser"] THEN CloseCall(os1, "browser") ELSE os1
                 IN IF self["playwright"] /\ "driver" \notin fails
                    THEN CloseCall(os2, "driver")
                    ELSE os2

\* one guarded close call of SkyScraper.close / VirginMediaScraper.close
GuardedClose(os, held, r, fails) ==
    IF held /\ r \notin fails THEN CloseCall(os, r) ELSE os

\* SkyScraper.close and VirginMediaScraper.close: BaseScraper.close, then context,
\* browser and driver each in a try of its own
OwnClose(os, self, fails) ==
    IF self["_owns_playwright"]
    THEN GuardedClose(
            GuardedClose(
                GuardedClose(BaseClose(os, self, fails), self["_context"], "context", fails),
                self["_browser"], "browser", fails),
            self["_pw"], "driver", fails)
    ELSE BaseClose(os, self, fails)

\* a close call made by BaseScraper.close raises
BaseCloseFault(self, fails) ==
    \/ self["page"] /\ "page" \in fails
    \/ self["browser"] /\ "browser" \in fails
    \/ self["playwright"] /\ "driver" \in fails

\* BaseScraper.close without the try around its calls
base_close_result_unguarded(self, fails) ==
    IF BaseCloseFault(self, fails) THEN "raised" ELSE "closed"

\* how BaseScraper.close ends: its except clause logs the exception of a
\* close call and the method returns
base_close_result(self, fails) ==
    IF BaseCloseFault(self, fails) THEN "logged" ELSE "closed"

\* how scraper.close() of class p ends: SkyScraper.close and
\* VirginMediaScraper.close pass over an exception of super().close() and of
\* each close call of their own
close_result(p, self, fails) ==
    IF p \in {"sky", "virgin_media"}
    THEN IF base_close_result(self, fails) = "closed" THEN "closed" ELSE "logged"
    ELSE base_close_result(self, fails)

\* scraper.close() of class p; BTScraper defines no close of its own
close(p, os, self, fails) ==
    IF p \in {"sky", "virgin_media"} THEN OwnClose(os, self, fails)
    ELSE BaseClose(os, self, fails)

\* what a page can yield: a card whose price the validator accepts, and one
\* whose price is above the validator's range
CardLists == {<<>>, <<"in_range">>, <<"in_range", "pricey">>}

ListOf(deals) == [kind |-> "list", deals |-> deals]
Raised == [kind |-> "exc", deals |-> <<>>]

\* the provider label a scraper writes into its records
ProviderLabel(p) ==
    CASE p = "sky" -> "Sky"
      [] p = "virgin_media" -> "Virgin Media"
      [] OTHER -> p

\* the record a scraper builds from a card: numbers already parsed, no
\* extraction_timestamp
ScrapedDeal(p, kind) ==
    LET price == IF kind = "pricey" THEN 250 ELSE 30
    IN [EmptyDeal EXCEPT !["provider"] = PyStr(<<ProviderLabel(p)>>),
                         !["monthly_price"] = Dec(price, 0),
                         !["upfront_cost"] = Dec(0, 0),
                         !["download_speed"] = PyInt(100),
                         !["contract_length"] = PyInt(24),
                         !["total_contract_cost"] = Dec(price * 24, 0)]

\* the records of scraper i, as they sit in a result list
CardsOf(i, kinds) == [k \in DOMAIN kinds |-> [src |-> i, kind |-> kinds[k]]]
\* a result list as the list of dicts it is
Dicts(cards) == [k \in DOMAIN cards |-> ScrapedDeal(providers[cards[k].src], cards[k].kind)]

\* a scraper the orchestrator has not created yet
NewScraper ==
    [pc |-> "new", os |-> NoSession, self |-> NoAttrs, ret |-> NoValue, out |-> NoValue,
     postcode |-> "none", address |-> "none", extracted |-> FALSE, cards |-> <<>>,
     failed |-> "none", close_raised |-> FALSE]

TaskIds == DOMAIN scrapers

\* the scheduler may run a step of _run_scraper(providers[i]): any task under
\* gather, only the loop's current one in sequential mode
Running(i) ==
    IF concurrent THEN o_pc = "gather" ELSE o_pc = "loop" /\ idx = i

At(i, step) == Running(i) /\ scrapers[i].pc = step

\* what the call of scrape() amounts to when a step raised: every class but
\* VirginMediaScraper wraps its scrape() body in try/except and returns []
scrape_raised(p) == IF p = "virgin_media" THEN Raised ELSE ListOf(<<>>)

Continue(s, p) == [s EXCEPT !.pc = NextStep(p, s.pc)]
Raise(s, p) == [s EXCEPT !.ret = scrape_raised(p), !.failed = "scrape", !.pc = "close"]
ReturnEmpty(s) == [s EXCEPT !.ret = ListOf(<<>>), !.pc = "close"]

\* _run_scraper without its except clause
run_scraper_propagate(ret) == ret

\* _run_scraper: the value of its try/except around scraper.scrape()
run_scraper_result(ret) == IF ret.kind = "exc" THEN ListOf(<<>>) ELSE ret

\* _run_scraper up to the call of scrape(): the scraper's constructor reads the
\* provider configuration and may raise, outside the try
StartScraper(i) ==
    /\ At(i, "new")
    /\ \E constructed \in BOOLEAN :
        scrapers' = [scrapers EXCEPT ![i] =
            IF constructed
            THEN [@ EXCEPT !.pc = "launch"]
            ELSE [@ EXCEPT !.pc = "done", !.out = Raised, !.failed = "constructor"]]
    /\ UNCHANGED <<providers, concurrent, o_pc, idx, all_results, processed, exported,
                   returned, dpvars, scvars, xvars>>

\* initialize_browser / _ensure_page: driver, browser, context and page are
\* created in turn, and the call raises at the first creation that fails
InitializeBrowser(i) ==
    /\ At(i, "launch")
    /\ \E stage \in 0..4 :
        LET p == providers[i]
            s == [scrapers[i] EXCEPT !.os = LaunchedSession(stage),
                                     !.self = LaunchedAttrs(p, stage)]
        IN scrapers' = [scrapers EXCEPT ![i] =
                            IF stage = 4 THEN Continue(s, p) ELSE Raise(s, p)]
    /\ UNCHANGED <<providers, concurrent, o_pc, idx, all_results, processed, exported,
                   returned, dpvars, scvars, xvars>>

\* navigate_to_page / page.goto: BaseScraper.navigate_to_page swallows a
\* timeout, VirginMediaScraper returns [] on status 403, the others ignore the status
NavigateToPage(i) ==
    /\ At(i, "goto")
    /\ \E outcome \in {"ok", "timeout", "forbidden", "error"} :
        LET p == providers[i]
            s == scrapers[i]
        IN scrapers' = [scrapers EXCEPT ![i] =
                CASE outcome = "ok" -> Continue(s, p)
                  [] outcome = "timeout" ->
                        IF p \in BaseSession THEN Continue(s, p) ELSE Raise(s, p)
                  [] outcome = "forbidden" ->
                        IF p = "virgin_media" THEN ReturnEmpty(s) ELSE Continue(s, p)
                  [] OTHER -> Raise(s, p)]
    /\ UNCHANGED <<providers, concurrent, o_pc, idx, all_results, processed, exported,
                   returned, dpvars, scvars, xvars>>

\* handle_cookies: returns true or false, never raises, and scrape() goes on
HandleCookies(i) ==
    /\ At(i, "cookies")
    /\ scrapers' = [scrapers EXCEPT ![i] = Continue(@, providers[i])]
    /\ UNCHANGED <<providers, concurrent, o_pc, idx, all_results, processed, exported,
                   returned, dpvars, scvars, xvars>>

\* enter_postcode: BaseScraper.scrape and VirginMediaScraper.scrape return [] when
\* it returns false; EEScraper.scrape and HyperopticScraper.scrape do not look
\* at what it returns; VirginMediaScraper.enter_postcode may also raise
EnterPostcode(i) ==
    /\ At(i, "postcode")
    /\ \E outcome \in {"ok", "fail", "error"} :
        LET p == providers[i]
            s == [scrapers[i] EXCEPT !.postcode = IF outcome = "ok" THEN "ok" ELSE "fail"]
        IN /\ outcome = "error" => p = "virgin_media"
           /\ scrapers' = [scrapers EXCEPT ![i] =
                CASE outcome = "error" -> Raise(s, p)
                  [] outcome = "fail" /\ p \in {"vodafone", "virgin_media"} -> ReturnEmpty(s)
                  [] OTHER -> Continue(s, p)]
    /\ UNCHANGED <<providers, concurrent, o_pc, idx, all_results, processed, exported,
                   returned, dpvars, scvars, xvars>>

\* select_address / select_first_address_and_continue: only BaseScraper.scrape
\* looks at the result; VirginMediaScraper's returns true or raises
SelectAddress(i) ==
    /\ At(i, "address")
    /\ \E outcome \in {"ok", "fail", "error"} :
        LET p == providers[i]
            s == [scrapers[i] EXCEPT !.address = IF outcome = "ok" THEN "ok" ELSE "fail"]
        IN /\ outcome = "error" => p = "virgin_media"
           /\ outcome = "fail" => p # "virgin_media"
           /\ scrapers' = [scrapers EXCEPT ![i] =
                CASE outcome = "error" -> Raise(s, p)
                  [] outcome = "fail" /\ p = "vodafone" -> ReturnEmpty(s)
                  [] OTHER -> Continue(s, p)]
    /\ UNCHANGED <<providers, concurrent, o_pc, idx, all_results, processed, exported,
                   returned, dpvars, scvars, xvars>>

\* BTScraper.enter_postcode_and_select_address: up to five attempts, each
\* typing the postcode and clicking an address only once the address list
\* showed; true as soon as the cards load after the click, false after the
\* last attempt; the wait between attempts is outside the try and may raise
EnterPostcodeAndSelectAddress(i) ==
    /\ At(i, "postcode_address")
    /\ \E outcome \in {"selected", "no_cards", "no_address", "not_typed", "error"} :
        LET p == providers[i]
            s == [scrapers[i] EXCEPT
                    !.postcode = IF outcome \in {"not_typed", "error"} THEN "fail" ELSE "ok",
                    !.address = CASE outcome = "selected" -> "ok"
                                  [] outcome = "no_cards" -> "fail"
                                  [] OTHER -> "none"]
        IN scrapers' = [scrapers EXCEPT ![i] =
                CASE outcome = "selected" -> Continue(s, p)
                  [] outcome = "error" -> Raise(s, p)
                  [] OTHER -> ReturnEmpty(s)]
    /\ UNCHANGED <<providers, concurrent, o_pc, idx, all_results, processed, exported,
                   returned, dpvars, scvars, xvars>>

\* VirginMediaScraper.choose_broadband_and_lets_go: returns true or raises
ChooseBroadband(i) ==
    /\ At(i, "choose")
    /\ \E ok \in BOOLEAN :
        scrapers' = [scrapers EXCEPT ![i] =
            IF ok THEN Continue(@, providers[i]) ELSE Raise(@, providers[i])]
    /\ UNCHANGED <<providers, concurrent, o_pc, idx, all_results, processed, exported,
                   returned, dpvars, scvars, xvars>>

\* the extraction of the cards and the return of scrape(): the records found,
\* or an exception on the way (VodafoneScraper.extract_deals catches its own)
ExtractDeals(i) ==
    /\ At(i, "extract")
    /\ LET p == providers[i]
           s == [scrapers[i] EXCEPT !.extracted = TRUE]
       IN \/ \E kinds \in CardLists :
                scrapers' = [scrapers EXCEPT ![i] =
                    [s EXCEPT !.cards = kinds, !.ret = ListOf(CardsOf(i, kinds)),
                              !.pc = "close"]]
          \/ /\ p # "vodafone"
             /\ scrapers' = [scrapers EXCEPT ![i] = Raise(s, p)]
    /\ UNCHANGED <<providers, concurrent, o_pc, idx, all_results, processed, exported,
                   returned, dpvars, scvars, xvars>>

\* the faults of one close(): no close call raises, or those on one resource do
CloseFaults == {{}} \cup {{r} : r \in Owned("driver")}

\* _run_scraper with one browser held by the scraper class for all instances:
\* the close() of one task ends the session of every task
Close_shared(i) ==
    /\ At(i, "close")
    /\ \E fails \in CloseFaults :
        LET s == scrapers[i]
        IN scrapers' = [j \in TaskIds |->
                IF j = i
                THEN [NewScraper EXCEPT !.pc = "done",
                                        !.os = close(providers[i], s.os, s.self, fails),
                                        !.out = IF close_result(providers[i], s.self, fails) = "raised"
                                                THEN Raised ELSE run_scraper_result(s.ret),
                                        !.cards = s.cards,
                                        !.failed = s.failed,
                                        !.close_raised = fails # {}]
                ELSE [scrapers[j] EXCEPT !.os = NoSession]]
    /\ UNCHANGED <<providers, concurrent, o_pc, idx, all_results, processed, exported,
                   returned, dpvars, scvars, xvars>>

\* the finally clause of _run_scraper and its return: scraper.close(), whose
\* close calls on the resources `fails` raise, then the scraper object is
\* dropped; an exception leaving close() would take the place of the value
\* returned
Close(i) ==
    /\ At(i, "close")
    /\ \E fails \in CloseFaults :
        LET s == scrapers[i]
        IN scrapers' = [scrapers EXCEPT ![i] =
                [NewScraper EXCEPT !.pc = "done",
                                   !.os = close(providers[i], s.os, s.self, fails),
                                   !.out = IF close_result(providers[i], s.self, fails) = "raised"
                                           THEN Raised ELSE run_scraper_result(s.ret),
                                   !.cards = s.cards,
                                   !.failed = s.failed,
                                   !.close_raised = fails # {}]]
    /\ UNCHANGED <<providers, concurrent, o_pc, idx, all_results, processed, exported,
                   returned, dpvars, scvars, xvars>>

\* ------------------------------------------------------------------------
\* Orchestrator.run
\* ------------------------------------------------------------------------
\* _run_sequential's except clause: the loop goes on with the next provider
after_provider_error(k) == k + 1

\* _run_sequential: _run_scraper returned a list; extend, then sleep
CollectResults ==
    /\ ~concurrent /\ o_pc = "loop"
    /\ idx \in TaskIds
    /\ scrapers[idx].pc = "done"
    /\ scrapers[idx].out.kind = "list"
    /\ all_results' = all_results \o scrapers[idx].out.deals
    /\ o_pc' = "sleep"
    /\ UNCHANGED <<providers, concurrent, idx, processed, exported, returned, scrapers,
                   dpvars, scvars, xvars>>

\* _run_sequential: _run_scraper raised; no sleep
ProviderFailed ==
    /\ ~concurrent /\ o_pc = "loop"
    /\ idx \in TaskIds
    /\ scrapers[idx].pc = "done"
    /\ scrapers[idx].out.kind = "exc"
    /\ idx' = after_provider_error(idx)
    /\ UNCHANGED <<providers, concurrent, o_pc, all_results, processed, exported, returned,
                   scrapers, dpvars, scvars, xvars>>

\* _run_sequential: asyncio.sleep(3) is over, next provider
Sleep ==
    /\ o_pc = "sleep"
    /\ idx' = idx + 1
    /\ o_pc' = "loop"
    /\ UNCHANGED <<providers, concurrent, all_results, processed, exported, returned,
                   scrapers, dpvars, scvars, xvars>>

\* _run_sequential: the loop is over
LoopEnd ==
    /\ ~concurrent /\ o_pc = "loop"
    /\ idx \notin TaskIds
    /\ o_pc' = "collected"
    /\ UNCHANGED <<providers, concurrent, idx, all_results, processed, exported, returned,
                   scrapers, dpvars, scvars, xvars>>

\* _run_concurrent with a gather that lets the first exception through
RECURSIVE gather_first_exception(_, _)
gather_first_exception(outs, k) ==
    IF k > Len(outs) \/ outs[k].kind = "exc" THEN <<>>
    ELSE outs[k].deals \o gather_first_exception(outs, k + 1)

\* _run_concurrent after gather: the lists of the tasks from position k on, in
\* provider order, exceptions skipped
RECURSIVE gather_results(_, _)
gather_results(outs, k) ==
    IF k > Len(outs) THEN <<>>
    ELSE (IF outs[k].kind = "exc" THEN <<>> ELSE outs[k].deals)
            \o gather_results(outs, k + 1)

\* _run_concurrent: every task is done
Gather ==
    /\ concurrent /\ o_pc = "gather"
    /\ \A i \in TaskIds : scrapers[i].pc = "done"
    /\ all_results' = gather_results([i \in TaskIds |-> scrapers[i].out], 1)
    /\ o_pc' = "collected"
    /\ UNCHANGED <<providers, concurrent, idx, processed, exported, returned, scrapers,
                   dpvars, scvars, xvars>>

\* the formats _export_results writes for self.output_format
FormatsOf(output_format) ==
    IF output_format = "all" THEN {"csv", "excel", "json"} ELSE {output_format}

\* run() with no except clause: the exception leaves run()
run_reraise(results) == Raised

\* run()'s except clause: log, and return what was collected
run_except(results) == ListOf(results)

\* run() once the records are collected and there are some:
\* DataProcessor.process_results(all_results), _export_results of the
\* processed records, return all_results. _export_results tries each format
\* in a try of its own (`failing` are the formats whose export raises); its
\* Exporter constructor, which creates the output directory, is outside them,
\* and when it raises run()'s except clause returns all_results
ProcessAndExport ==
    /\ o_pc = "collected"
    /\ all_results # <<>>
    /\ \E t \in 1..MaxClock : processed' = process_results(Dicts(all_results), t)
    /\ \/ /\ \E output_format \in {"csv", "excel", "json", "all"} :
                \E failing \in SUBSET FormatsOf(output_format) :
                    exported' = FormatsOf(output_format) \ failing
          /\ returned' = ListOf(all_results)
       \/ /\ exported' = {}
          /\ returned' = run_except(all_results)
    /\ o_pc' = "done"
    /\ UNCHANGED <<providers, concurrent, idx, all_results, scrapers, dpvars, scvars, xvars>>

\* run() when nothing was collected: return all_results, the empty list
ReturnNothing ==
    /\ o_pc = "collected"
    /\ all_results = <<>>
    /\ returned' = ListOf(all_results)
    /\ o_pc' = "done"
    /\ UNCHANGED <<providers, concurrent, idx, all_results, processed, exported, scrapers,
                   dpvars, scvars, xvars>>

\* the orchestrator after __init__, at the first step of run()
Init ==
    /\ providers \in ProviderLists
    /\ concurrent \in BOOLEAN
    /\ o_pc = IF concurrent THEN "gather" ELSE "loop"
    /\ idx = 1
    /\ all_results = <<>>
    /\ processed = <<>>
    /\ exported = {}
    /\ returned = NoValue
    /\ scrapers = [i \in DOMAIN providers |-> NewScraper]
    /\ DPIdle
    /\ ScrapeIdle
    /\ XIdle

Next ==
    \/ \E i \in TaskIds : StartScraper(i)
    \/ \E i \in TaskIds : InitializeBrowser(i)
    \/ \E i \in TaskIds : NavigateToPage(i)
    \/ \E i \in TaskIds : HandleCookies(i)
    \/ \E i \in TaskIds : EnterPostcode(i)
    \/ \E i \in TaskIds : SelectAddress(i)
    \/ \E i \in TaskIds : EnterPostcodeAndSelectAddress(i)
    \/ \E i \in TaskIds : ChooseBroadband(i)
    \/ \E i \in TaskIds : ExtractDeals(i)
    \/ \E i \in TaskIds : Close(i)
    \/ CollectResults
    \/ ProviderFailed
    \/ Sleep
    \/ LoopEnd
    \/ Gather
    \/ ProcessAndExport
    \/ ReturnNothing

Spec == Init /\ [][Next]_vars

\* ------------------------------------------------------------------------
\* One scrape() call in detail: consent, postcode and address
\* ------------------------------------------------------------------------
\* what the page does with its consent banner: there is none, a plain click
\* dismisses it, it is covered so that only a forced or script click
\* reaches it, or the session is broken and every call on the page raises
CookieBanners == {"none", "clickable", "covered", "error"}

\* BaseScraper.handle_cookies without its outer try/except
BaseHandleCookies_unguarded(banner) ==
    CASE banner = "clickable" -> "True"
      [] banner = "error" -> "raise"
      [] OTHER -> "False"

\* BaseScraper.handle_cookies: wait_for_selector and click per configured
\* selector; a TimeoutError goes on with the next selector, any other
\* exception ends in the outer except
BaseHandleCookies(banner) ==
    CASE banner = "clickable" -> "True"
      [] banner = "error" -> "False"
      [] OTHER -> "False"

\* SkyScraper.handle_cookies / VirginMediaScraper.handle_cookies: polls the
\* selectors on the page and its frames until the deadline, each click
\* escalating from plain to forced to script-injected
PollingHandleCookies(banner) ==
    CASE banner \in {"clickable", "covered"} -> "True"
      [] OTHER -> "False"

handle_cookies(p, banner) ==
    IF p \in {"sky", "virgin_media"} THEN PollingHandleCookies(banner)
    ELSE BaseHandleCookies(banner)

\* the step of scrape() that follows handle_cookies()
AfterCookies(p) ==
    CASE p = "sky" -> "cards"
      [] p = "bt" -> "entry"
      [] OTHER -> "postcode"

\* address texts a page lists
FLAT_1 == <<"F", "L", "A", "T", " ", "1">>
FLAT_2 == <<"F", "L", "A", "T", " ", "2">>
FLAT_12 == <<"F", "L", "A", "T", " ", "1", "2">>
MaxCandidates == 2
CandidateLists == SeqsUpTo({FLAT_1, FLAT_2, FLAT_12}, MaxCandidates)
\* the address argument: none, a listed text, part of one in lower case, or
\* a text no candidate has
AddressInputs ==
    {None_, PyStr(FLAT_1), PyStr(<<"f", "l", "a", "t", " ", "2">>), PyStr(<<"9">>)}

\* the first position of `S` (a set of positions), 0 when it is empty
FirstOf(S) == IF S = {} THEN 0 ELSE CHOOSE k \in S : \A m \in S : k <= m

\* BaseScraper.select_address on a dropdown whose first option is the
\* placeholder: [ok, selected], selected counts the candidates from 1.
\* select_option(label=...) takes the option whose label is the text and
\* raises when there is none; no dropdown at all is a wait that times out
select_address(preferred, candidates, dropdown) ==
    IF ~dropdown THEN [ok |-> FALSE, selected |-> 0]
    ELSE IF Truthy(preferred)
    THEN LET k == FirstOf({i \in DOMAIN candidates : candidates[i] = preferred.s})
         IN [ok |-> k # 0, selected |-> k]
    ELSE [ok |-> TRUE, selected |-> IF Len(candidates) + 1 > 1 THEN 1 ELSE 0]

\* BTScraper.enter_postcode_and_select_address, step 3, for count > 0: the
\* first button whose lower-cased text holds the lower-cased preferred
\* address, else the first button
bt_select_address(preferred, candidates) ==
    IF Truthy(preferred)
    THEN LET k == FirstOf({i \in DOMAIN candidates :
                            Contains(LowerText(candidates[i]), LowerText(preferred.s))})
         IN IF k # 0 THEN k ELSE 1
    ELSE 1

\* the text matches /^\s*FLAT\s*1\b/i
IsFlat1(text) ==
    /\ Len(text) >= Len(FLAT_1)
    /\ LowerText(SubSeq(text, 1, Len(FLAT_1))) = LowerText(FLAT_1)
    /\ (Len(text) = Len(FLAT_1) \/ ~IsDigit(text[Len(FLAT_1) + 1]))

\* VirginMediaScraper.select_first_address_and_continue in the
\* multiple-matches state: the "FLAT 1" entry, else the first entry; the
\* address argument of scrape() is not passed on
virgin_select_address(candidates) ==
    LET k == FirstOf({i \in DOMAIN candidates : IsFlat1(candidates[i])})
    IN IF k # 0 THEN k ELSE IF Len(candidates) > 0 THEN 1 ELSE 0

\* the scrape() call starts at its consent step: the browser is up and the
\* landing page is loaded
ScrapeInit ==
    /\ sc_pc = "cookies"
    /\ sc_provider \in Providers
    /\ sc_address \in AddressInputs
    /\ sc_cookies = "-"
    /\ sc_entry = NoEntry
    /\ sc_page = NoPage
    /\ sc_loop = NoLoop
    /\ sc_all_deals = <<>>
    /\ sc_ret = NoValue
    /\ sc_processed = <<>>
    /\ sc_returned = NoValue
    /\ DPIdle
    /\ OrchIdle
    /\ XIdle

\* scrape() ends: it returns `ret`, or raises when ret is Raised
ScrapeEnds(ret) ==
    /\ sc_pc' = "returned"
    /\ sc_ret' = ret

\* await self.handle_cookies(), its result dropped
ScHandleCookies ==
    /\ sc_pc = "cookies"
    /\ \E banner \in CookieBanners :
        /\ sc_cookies' = handle_cookies(sc_provider, banner)
        /\ IF sc_cookies' = "raise"
           THEN ScrapeEnds(scrape_raised(sc_provider))
           ELSE sc_pc' = AfterCookies(sc_provider) /\ UNCHANGED sc_ret
    /\ UNCHANGED <<sc_provider, sc_address, sc_entry, sc_page, sc_loop, sc_all_deals,
                   sc_processed, sc_returned, dpvars, orchvars, xvars>>

\* BaseScraper.scrape going on to select_address after a false enter_postcode
ScEnterPostcode_goes_on ==
    /\ sc_pc = "postcode"
    /\ \E ok \in BOOLEAN :
        /\ sc_entry' = [NoEntry EXCEPT !.input = IF ok THEN 1 ELSE 0,
                                       !.result = IF ok THEN "True" ELSE "False"]
        /\ IF ~ok /\ sc_provider \in {"virgin_media"}
           THEN ScrapeEnds(ListOf(<<>>))
           ELSE sc_pc' = "address" /\ UNCHANGED sc_ret
    /\ sc_cookies' = "-"
    /\ UNCHANGED <<sc_provider, sc_address, sc_page, sc_loop, sc_all_deals,
                   sc_processed, sc_returned, dpvars, orchvars, xvars>>

\* enter_postcode(postcode): BaseScraper.scrape and VirginMediaScraper.scrape
\* return [] when it returns false, EEScraper.scrape and
\* HyperopticScraper.scrape go on
ScEnterPostcode ==
    /\ sc_pc = "postcode"
    /\ \E ok \in BOOLEAN :
        /\ sc_entry' = [NoEntry EXCEPT !.input = IF ok THEN 1 ELSE 0,
                                       !.result = IF ok THEN "True" ELSE "False"]
        /\ IF ~ok /\ sc_provider \in {"vodafone", "virgin_media"}
           THEN ScrapeEnds(ListOf(<<>>))
           ELSE sc_pc' = "address" /\ UNCHANGED sc_ret
    /\ sc_cookies' = "-"
    /\ UNCHANGED <<sc_provider, sc_address, sc_page, sc_loop, sc_all_deals,
                   sc_processed, sc_returned, dpvars, orchvars, xvars>>

\* select_address(address) of the BaseScraper, or Virgin Media's
\* select_first_address_and_continue, on the candidates the page lists
ScSelectAddress ==
    /\ sc_pc = "address"
    /\ \E candidates \in CandidateLists, dropdown \in BOOLEAN :
        LET r == IF sc_provider = "virgin_media"
                 THEN [ok |-> TRUE, selected |-> virgin_select_address(candidates)]
                 ELSE select_address(sc_address, candidates, dropdown)
        IN /\ ~dropdown => candidates = <<>>
           /\ sc_entry' = [sc_entry EXCEPT !.candidates = candidates,
                                           !.selected = r.selected,
                                           !.result = IF r.ok THEN "True" ELSE "False"]
           /\ IF ~r.ok /\ sc_provider = "vodafone"
              THEN ScrapeEnds(ListOf(<<>>))
              ELSE sc_pc' = "cards" /\ UNCHANGED sc_ret
    /\ UNCHANGED <<sc_provider, sc_address, sc_cookies, sc_page, sc_loop, sc_all_deals,
                   sc_processed, sc_returned, dpvars, orchvars, xvars>>

max_attempts == 5

\* how one pass of BT's retry loop can go: the postcode input never shows;
\* neither an address list nor a card shows in time; cards show without an
\* address list; an address is clicked and the cards load, or do not load
\* in time; a call raises after the postcode was typed; and that with the
\* wait before the next pass raising as well
AttemptOutcomes ==
    {"no_input", "list_timeout", "cards_only", "selected_loaded", "selected_timeout",
     "error", "session_lost"}

\* postcode_input.fill("") and the typing of the postcode: the copies of the
\* postcode the input holds afterwards
type_postcode(input) == 1

\* what enter_postcode_and_select_address does after pass number `attempt`:
\* returns true or false, raises, or goes round again ("-")
attempt_result(outcome, attempt) ==
    CASE outcome = "selected_loaded" -> "True"
      [] outcome = "session_lost" -> "raise"
      [] attempt >= max_attempts -> "False"
      [] OTHER -> "-"

\* one pass of the loop of BTScraper.enter_postcode_and_select_address, and
\* what scrape() does when the call ends
BTAttempt ==
    /\ sc_pc = "entry"
    /\ \E outcome \in AttemptOutcomes, candidates \in CandidateLists :
        LET clicked == outcome \in {"selected_loaded", "selected_timeout"}
            result == attempt_result(outcome, sc_entry.attempt + 1)
        IN /\ clicked <=> candidates # <<>>
           /\ sc_entry' =
                [attempt |-> sc_entry.attempt + 1,
                 input |-> IF outcome \in {"no_input", "session_lost"}
                           THEN sc_entry.input ELSE type_postcode(sc_entry.input),
                 cards_loaded |-> outcome \in {"cards_only", "selected_loaded"},
                 result |-> result,
                 candidates |-> candidates,
                 selected |-> IF clicked THEN bt_select_address(sc_address, candidates)
                              ELSE 0]
           /\ CASE result = "True" -> sc_pc' = "cards" /\ UNCHANGED sc_ret
                [] result = "False" -> ScrapeEnds(ListOf(<<>>))
                [] result = "raise" -> ScrapeEnds(scrape_raised(sc_provider))
                [] OTHER -> UNCHANGED <<sc_pc, sc_ret>>
    /\ sc_cookies' = "-"
    /\ UNCHANGED <<sc_provider, sc_address, sc_page, sc_loop, sc_all_deals,
                   sc_processed, sc_returned, dpvars, orchvars, xvars>>

\* ------------------------------------------------------------------------
\* One scrape() call in detail: the cards and the records built from them
\* ------------------------------------------------------------------------
\* most cards one view of a page renders
MaxCards == 2

\* the postcode scrape() is called with
Postcode == <<"S", "W", "1", "A">>

\* what a card shows, -1 for a thing it does not show: its id attribute
\* ("" for none), monthly price and upfront cost in pounds, download speed
\* in Mbps, contract months; reading a broken card raises
CardKinds == {"full", "slow", "no_speed", "no_price", "broken"}
Card(kind) ==
    CASE kind = "full" ->
            [id |-> "a", price |-> 30, speed |-> 100, upfront |-> -1, contract |-> 24,
             raises |-> FALSE]
      [] kind = "slow" ->
            [id |-> "b", price |-> 30, speed |-> 50, upfront |-> 10, contract |-> -1,
             raises |-> FALSE]
      [] kind = "no_speed" ->
            [id |-> "", price |-> 30, speed |-> -1, upfront |-> -1, contract |-> 24,
             raises |-> FALSE]
      [] kind = "no_price" ->
            [id |-> "c", price |-> -1, speed |-> 100, upfront |-> -1, contract |-> 24,
             raises |-> FALSE]
      [] kind = "m350" ->
            [id |-> "e", price |-> 33, speed |-> 350, upfront |-> -1, contract |-> 18,
             raises |-> FALSE]
      [] kind = "gig1" ->
            [id |-> "f", price |-> 40, speed |-> 1000, upfront |-> -1, contract |-> 18,
             raises |-> FALSE]
      [] kind = "gig2" ->
            [id |-> "g", price |-> 60, speed |-> 2000, upfront |-> -1, contract |-> 24,
             raises |-> FALSE]
      [] kind = "no_id" ->
            [id |-> "", price |-> 35, speed |-> 100, upfront |-> -1, contract |-> 24,
             raises |-> FALSE]
      [] OTHER ->
            [id |-> "d", price |-> 30, speed |-> 100, upfront |-> -1, contract |-> 24,
             raises |-> TRUE]
CardLists2 == SeqsUpTo(CardKinds, MaxCards)

\* extract_price / extract_speed of the text shown: None when there is none
PriceOf(x) == IF x < 0 THEN None_ ELSE Dec(x, 0)
SpeedOf(x) == IF x < 0 THEN None_ ELSE Dec(x, 0)
IntOf(x) == IF x < 0 THEN None_ ELSE PyInt(x)
\* round(x, 2) of a float in units of 1/Scale
Round2(n) == ((n + (Scale \div 200)) \div (Scale \div 100)) * (Scale \div 100)

\* "FTTC" if download_speed < 100 else "FTTP"
TechBySpeed(mbps) == IF mbps < 100 THEN PyStr(<<"FTTC">>) ELSE PyStr(<<"FTTP">>)

\* the text of the page-level technology paragraph (<<>>: there is none)
L_copper == <<"c", "o", "p", "p", "e", "r">>
L_part_fibre == <<"p", "a", "r", "t", " ", "f", "i", "b", "r", "e">>
L_full_fibre == <<"f", "u", "l", "l", " ", "f", "i", "b", "r", "e">>
TechLabels == {<<>>, L_copper, L_part_fibre, L_full_fibre}

\* BTScraper._get_page_technology
get_page_technology(label) ==
    LET tech_text == LowerText(label)
    IN IF Len(tech_text) = 0 THEN PyStr(<<"Unknown">>)
       ELSE IF Contains(tech_text, L_copper) THEN PyStr(<<"Copper">>)
       ELSE IF Contains(tech_text, L_part_fibre) THEN PyStr(<<"Part Fibre">>)
       ELSE IF Contains(tech_text, L_full_fibre)
               \/ Contains(tech_text, <<"f", "i", "b", "r", "e">>)
            THEN PyStr(<<"Full Fibre">>)
       ELSE PyStr(<<"Unknown">>)

\* the dict a parse returns, or the exception it raises
Parsed(deal) == [raised |-> FALSE, v |-> deal]
ParseRaised == [raised |-> TRUE, v |-> EmptyDeal]

\* BTScraper._parse_card(card, postcode, contract_override=term)
bt_parse_card(c, term, label) ==
    IF c.raises THEN ParseRaised
    ELSE Parsed(
        [EmptyDeal EXCEPT
            !["postcode"] = PyStr(Postcode),
            !["deal_name"] = PyStr(<<"BT Broadband">>),
            !["monthly_price"] = IF Truthy(PriceOf(c.price)) THEN PriceOf(c.price) ELSE Absent,
            !["download_speed"] = IF c.speed >= 0 THEN PyInt(c.speed) ELSE Absent,
            !["upfront_cost"] = IF c.upfront >= 0 THEN PriceOf(c.upfront) ELSE Absent,
            !["contract_length"] = PyInt(term),
            !["data_allowance"] = PyStr(<<"Unlimited">>),
            !["provider"] = PyStr(<<"bt">>),
            !["total_contract_cost"] =
                IF Truthy(PriceOf(c.price)) /\ term # 0
                THEN PyFloat(Round2(PriceOf(c.price).n * term)) ELSE Absent,
            !["router_included"] = None_,
            !["installation_type"] = PyStr(<<"Standard">>),
            !["technology_type"] = get_page_technology(label)])

\* EEScraper._parse_card(card, postcode, contract_length): {} for a card
\* without price or speed and for one whose reading raises
ee_parse_card(c, term) ==
    IF c.raises \/ ~Truthy(PriceOf(c.price)) \/ ~Truthy(SpeedOf(c.speed))
    THEN Parsed(EmptyDeal)
    ELSE Parsed(
        [EmptyDeal EXCEPT
            !["provider"] = PyStr(<<"ee">>),
            !["deal_name"] = PyStr(<<"Fibre">>),
            !["postcode"] = PyStr(Postcode),
            !["monthly_price"] = PriceOf(c.price),
            !["contract_length"] = PyInt(term),
            !["total_contract_cost"] = PyFloat(PriceOf(c.price).n * term),
            !["download_speed"] = SpeedOf(c.speed),
            !["upload_speed"] = None_,
            !["data_allowance"] = PyStr(<<"Unlimited">>),
            !["router_included"] = None_,
            !["installation_type"] = PyStr(<<"Standard">>),
            !["technology_type"] = TechBySpeed(c.speed),
            !["upfront_cost"] = Dec(0, 0)])

\* HyperopticScraper._parse_card(card, postcode): None for a card whose text
\* cannot be read
hyperoptic_parse_card(c) ==
    IF c.raises THEN Parsed(NotADict)
    ELSE Parsed(
        [EmptyDeal EXCEPT
            !["provider"] = PyStr(<<"hyperoptic">>),
            !["deal_name"] = IF c.speed >= 100 THEN PyStr(<<"Full Fibre">>)
                             ELSE PyStr(<<"Fibre">>),
            !["postcode"] = PyStr(Postcode),
            !["monthly_price"] = PriceOf(c.price),
            !["contract_length"] = PyInt(24),
            !["download_speed"] = SpeedOf(c.speed),
            !["upload_speed"] = IF c.speed >= 100 THEN SpeedOf(c.speed) ELSE None_,
            !["data_allowance"] = PyStr(<<"Unlimited">>),
            !["technology_type"] = PyStr(<<"FTTP">>)])

\* VodafoneScraper._extract_single_deal with an extraction map that names
\* every field, followed by the metadata BaseScraper.scrape adds
vodafone_extract_single_deal(c) ==
    IF c.raises THEN ParseRaised
    ELSE Parsed(
        [EmptyDeal EXCEPT
            !["deal_name"] = PyStr(<<"Vodafone Deal">>),
            !["monthly_price"] = IF c.price >= 0 THEN PriceOf(c.price) ELSE Absent,
            !["upfront_cost"] = IF c.upfront < 0 THEN Absent
                                ELSE IF Truthy(PriceOf(c.upfront)) THEN PriceOf(c.upfront)
                                ELSE PyFloat(0),
            !["download_speed"] = IF c.speed >= 0 THEN SpeedOf(c.speed) ELSE Absent,
            !["contract_length"] = IF c.contract >= 0 THEN PyInt(c.contract) ELSE Absent,
            !["data_allowance"] = PyStr(<<"Unlimited">>),
            !["provider"] = PyStr(<<"vodafone">>),
            !["postcode"] = PyStr(Postcode)])

\* the dict VirginMediaScraper.extract_deals appends for a card with price
\* and speed; of the two technology_type keys of the literal the last stays
virgin_card_deal(c) ==
    LET contract_length == IF c.contract >= 0 THEN c.contract ELSE 24
    IN [EmptyDeal EXCEPT
            !["postcode"] = PyStr(Postcode),
            !["deal_name"] = PyStr(<<c.id>>),
            !["provider"] = PyStr(<<"Virgin Media">>),
            !["monthly_price"] = PriceOf(c.price),
            !["upfront_cost"] = Dec(0, 0),
            !["download_speed"] = PyInt(c.speed),
            !["upload_speed"] = None_,
            !["contract_length"] = PyInt(contract_length),
            !["data_allowance"] = PyStr(<<"Unlimited">>),
            !["total_contract_cost"] = PyFloat(PriceOf(c.price).n * contract_length),
            !["installation_type"] = PyStr(<<"Standard">>),
            !["technology_type"] = TechBySpeed(c.speed)]

\* the speeds of the packages SkyScraper._extract_deals_from_page looks for
SkyPackageSpeeds == <<100, 300, 900, 5000>>

\* the dict SkyScraper._extract_deals_from_page appends for package k found
\* with this price
sky_package_deal(k, price) ==
    [EmptyDeal EXCEPT
        !["deal_name"] = PyStr(<<"Full Fibre">>),
        !["provider"] = PyStr(<<"Sky">>),
        !["monthly_price"] = PriceOf(price),
        !["upfront_cost"] = Dec(0, 0),
        !["download_speed"] = PyInt(SkyPackageSpeeds[k]),
        !["upload_speed"] = None_,
        !["contract_length"] = PyInt(24),
        !["data_allowance"] = PyStr(<<"Unlimited">>),
        !["total_contract_cost"] = PyFloat(PriceOf(price).n * 24),
        !["installation_type"] = PyStr(<<"Standard">>),
        !["technology_type"] = TechBySpeed(SkyPackageSpeeds[k])]

\* deal.get("monthly_price") and deal.get("download_speed")
Complete(deal) == Truthy(Get(deal, "monthly_price")) /\ Truthy(Get(deal, "download_speed"))

\* the parse the card loops of EE, Hyperoptic and Vodafone call
parse_card(p, c, term) ==
    CASE p = "ee" -> ee_parse_card(c, term)
      [] p = "hyperoptic" -> hyperoptic_parse_card(c)
      [] OTHER -> vodafone_extract_single_deal(c)

RECURSIVE card_loop_uncaught(_, _, _)
\* the card loop without the try/except around its body
card_loop_uncaught(p, kinds, term) ==
    IF Len(kinds) = 0 THEN ListOf(<<>>)
    ELSE LET before == card_loop_uncaught(p, SubSeq(kinds, 1, Len(kinds) - 1), term)
             deal == parse_card(p, Card(kinds[Len(kinds)]), term)
         IN IF before.kind = "exc" \/ deal.raised THEN Raised
            ELSE IF Complete(deal.v) THEN ListOf(Append(before.deals, deal.v))
            ELSE before

RECURSIVE card_loop(_, _, _)
\* the loop over the cards found, in EEScraper._scrape_cards,
\* HyperopticScraper.scrape and VodafoneScraper.extract_deals: a card whose
\* parse raises is skipped, a deal without price or speed is not appended
card_loop(p, kinds, term) ==
    IF Len(kinds) = 0 THEN ListOf(<<>>)
    ELSE LET before == card_loop(p, SubSeq(kinds, 1, Len(kinds) - 1), term)
             deal == parse_card(p, Card(kinds[Len(kinds)]), term)
         IN IF deal.raised THEN before
            ELSE IF Complete(deal.v) THEN ListOf(Append(before.deals, deal.v))
            ELSE before

RECURSIVE virgin_extract_deals_uncapped(_)
\* extract_deals without its cap of four deals
virgin_extract_deals_uncapped(kinds) ==
    IF Len(kinds) = 0 THEN [deals |-> <<>>, seen_names |-> {}]
    ELSE LET before == virgin_extract_deals_uncapped(SubSeq(kinds, 1, Len(kinds) - 1))
             c == Card(kinds[Len(kinds)])
         IN IF c.raises \/ c.id = "" \/ c.id \in before.seen_names
            THEN before
            ELSE IF c.price < 0 \/ c.speed < 0
            THEN [before EXCEPT !.seen_names = @ \cup {c.id}]
            ELSE [deals |-> Append(before.deals, virgin_card_deal(c)),
                  seen_names |-> before.seen_names \cup {c.id}]

RECURSIVE virgin_extract_deals(_)
\* VirginMediaScraper.extract_deals: [deals, seen_names] after the cards; a
\* card seen before (same element, same name) is passed over, and so is
\* every card once four deals are there
virgin_extract_deals(kinds) ==
    IF Len(kinds) = 0 THEN [deals |-> <<>>, seen_names |-> {}]
    ELSE LET before == virgin_extract_deals(SubSeq(kinds, 1, Len(kinds) - 1))
             c == Card(kinds[Len(kinds)])
         IN IF Len(before.deals) >= 4 \/ c.raises \/ c.id = "" \/ c.id \in before.seen_names
            THEN before
            ELSE IF c.price < 0 \/ c.speed < 0
            THEN [before EXCEPT !.seen_names = @ \cup {c.id}]
            ELSE [deals |-> Append(before.deals, virgin_card_deal(c)),
                  seen_names |-> before.seen_names \cup {c.id}]

\* SkyScraper._extract_deals_from_page: package k is found when the page
\* shows its price; a page that cannot be read gives no deal
sky_extract_deals(kinds) ==
    IF \E k \in DOMAIN kinds : Card(kinds[k]).raises THEN <<>>
    ELSE LET found == {k \in DOMAIN kinds : k <= Len(SkyPackageSpeeds)
                                            /\ Card(kinds[k]).price >= 0}
             nth(j) == CHOOSE k \in found : Cardinality({m \in found : m < k}) = j - 1
         IN [j \in 1..Cardinality(found) |-> sky_package_deal(nth(j), Card(kinds[nth(j)]).price)]

\* what the reading of the cards of one view gives, for every class but
\* BTScraper
read_cards(p, kinds, term) ==
    CASE p = "sky" -> ListOf(sky_extract_deals(kinds))
      [] p = "virgin_media" -> ListOf(virgin_extract_deals(kinds).deals)
      [] OTHER -> card_loop(p, kinds, term)

\* the cards of one view read by every class but BTScraper, and what
\* scrape() does with them: EEScraper goes on to the 12-month tab after the
\* 24-month cards, the others return.  The address argument, the consent
\* result and the locals of the address step are not read again.
ScReadCards ==
    /\ sc_pc = "cards"
    /\ sc_provider # "bt"
    /\ \E kinds \in CardLists2 :
        LET r == read_cards(sc_provider, kinds, sc_page.term)
        IN /\ sc_page' = [sc_page EXCEPT !.rendered = kinds]
           /\ sc_loop' = [NoLoop EXCEPT !.deals = r.deals]
           /\ IF r.kind = "exc"
              THEN ScrapeEnds(scrape_raised(sc_provider)) /\ UNCHANGED sc_all_deals
              ELSE /\ sc_all_deals' = sc_all_deals \o r.deals
                   /\ IF sc_provider = "ee" /\ sc_page.term = 24
                      THEN sc_pc' = "switch" /\ UNCHANGED sc_ret
                      ELSE ScrapeEnds(ListOf(sc_all_deals'))
    /\ sc_address' = None_
    /\ sc_cookies' = "-"
    /\ sc_entry' = NoEntry
    /\ UNCHANGED <<sc_provider, sc_processed, sc_returned, dpvars, orchvars, xvars>>

\* BTScraper._scrape_cards up to its loop: _wait_for_cards raises when no
\* card shows in time, which ends scrape() in its except clause.  The
\* 24-month view is entered with cards on the page
BTWaitForCards ==
    /\ sc_pc = "cards"
    /\ sc_provider = "bt"
    /\ \E kinds \in SeqsUpTo(CardKinds, 1), label \in TechLabels :
        /\ sc_page.term = 24 => kinds # <<>>
        /\ sc_page.term = 12 => label = sc_page.label
        /\ sc_page' = [sc_page EXCEPT !.label = label, !.rendered = kinds]
        /\ IF kinds = <<>>
           THEN ScrapeEnds(scrape_raised(sc_provider))
           ELSE sc_pc' = "enumerate" /\ UNCHANGED sc_ret
    /\ sc_loop' = NoLoop
    /\ sc_address' = None_
    /\ sc_cookies' = "-"
    /\ sc_entry' = NoEntry
    /\ UNCHANGED <<sc_provider, sc_all_deals, sc_processed, sc_returned, dpvars, orchvars, xvars>>

\* the page renders one more card while the enumeration runs
BTRender ==
    /\ sc_pc = "enumerate"
    /\ Len(sc_page.rendered) < MaxCards
    /\ \E kind \in CardKinds : sc_page' = [sc_page EXCEPT !.rendered = Append(@, kind)]
    /\ UNCHANGED <<sc_pc, sc_provider, sc_address, sc_cookies, sc_entry, sc_loop,
                   sc_all_deals, sc_ret, sc_processed, sc_returned, dpvars, orchvars, xvars>>

\* the body of the loop for cards.nth(index) without the test of seen_ids
bt_visit_card_twice(l, c, term, label) ==
    LET deal == bt_parse_card(c, term, label)
    IN [index |-> l.index + 1,
        stable_cycles |-> 0,
        seen_ids |-> l.seen_ids \cup (IF c.id # "" THEN {c.id} ELSE {}),
        parsed |-> Append(l.parsed, l.index + 1),
        deals |-> IF ~deal.raised /\ Complete(deal.v) THEN Append(l.deals, deal.v)
                  ELSE l.deals]

\* the body of the loop with `stable_cycles = 0` left out
bt_visit_card_no_reset(l, c, term, label) ==
    LET seen == c.id # "" /\ c.id \in l.seen_ids
        deal == bt_parse_card(c, term, label)
    IN [index |-> l.index + 1,
        stable_cycles |-> l.stable_cycles,
        seen_ids |-> l.seen_ids \cup (IF c.id # "" THEN {c.id} ELSE {}),
        parsed |-> IF seen THEN l.parsed ELSE Append(l.parsed, l.index + 1),
        deals |-> IF ~seen /\ ~deal.raised /\ Complete(deal.v) THEN Append(l.deals, deal.v)
                  ELSE l.deals]

\* the body of the loop of BTScraper._scrape_cards for the card c at
\* cards.nth(index): a card whose id was seen is passed over, the others are
\* parsed (parsed lists the positions handed to _parse_card) and appended
\* when price and speed are there; an exception goes on with the next card
bt_visit_card(l, c, term, label) ==
    LET seen == c.id # "" /\ c.id \in l.seen_ids
        deal == bt_parse_card(c, term, label)
    IN [index |-> l.index + 1,
        stable_cycles |-> 0,
        seen_ids |-> l.seen_ids \cup (IF c.id # "" THEN {c.id} ELSE {}),
        parsed |-> IF seen THEN l.parsed ELSE Append(l.parsed, l.index + 1),
        deals |-> IF ~seen /\ ~deal.raised /\ Complete(deal.v) THEN Append(l.deals, deal.v)
                  ELSE l.deals]

\* one pass of the while loop of BTScraper._scrape_cards; when the loop
\* breaks, scrape() extends all_deals and goes on to the 12-month tab, or
\* returns after the 12-month cards
BTEnumerate ==
    /\ sc_pc = "enumerate"
    /\ IF sc_loop.index >= Len(sc_page.rendered)
       THEN /\ sc_loop' = [sc_loop EXCEPT !.stable_cycles = @ + 1]
            /\ IF sc_loop.stable_cycles + 1 > 2
               THEN /\ sc_all_deals' = sc_all_deals \o sc_loop.deals
                    /\ IF sc_page.term = 24
                       THEN sc_pc' = "switch" /\ UNCHANGED sc_ret
                       ELSE ScrapeEnds(ListOf(sc_all_deals'))
               ELSE UNCHANGED <<sc_pc, sc_all_deals, sc_ret>>
       ELSE /\ sc_loop' = bt_visit_card(sc_loop, Card(sc_page.rendered[sc_loop.index + 1]),
                                        sc_page.term, sc_page.label)
            /\ UNCHANGED <<sc_pc, sc_all_deals, sc_ret>>
    /\ UNCHANGED <<sc_provider, sc_address, sc_cookies, sc_entry, sc_page,
                   sc_processed, sc_returned, dpvars, orchvars, xvars>>

\* _switch_to_12_month of BTScraper and EEScraper: true after the tab was
\* clicked, false when no tab is found or the click raises; scrape() then
\* reads the cards again, or returns what it has
ScSwitch ==
    /\ sc_pc = "switch"
    /\ \E switched \in BOOLEAN :
        IF switched
        THEN /\ sc_pc' = "cards"
             /\ sc_page' = [sc_page EXCEPT !.term = 12, !.rendered = <<>>]
             /\ sc_loop' = NoLoop
             /\ UNCHANGED sc_ret
        ELSE /\ ScrapeEnds(ListOf(sc_all_deals))
             /\ UNCHANGED <<sc_page, sc_loop>>
    /\ UNCHANGED <<sc_provider, sc_address, sc_cookies, sc_entry, sc_all_deals,
                   sc_processed, sc_returned, dpvars, orchvars, xvars>>

\* _run_scraper's try/except around scrape(), and run() from the collected
\* results on: process_results when there is a record, and the return of
\* all_results
RunTail ==
    /\ sc_pc = "returned"
    /\ \E now \in 1..MaxClock :
        LET collected == run_scraper_result(sc_ret).deals
        IN /\ sc_processed' = IF collected # <<>> THEN process_results(collected, now)
                              ELSE <<>>
           /\ sc_returned' = ListOf(collected)
    /\ sc_pc' = "done"
    /\ UNCHANGED <<sc_provider, sc_address, sc_cookies, sc_entry, sc_page, sc_loop,
                   sc_all_deals, sc_ret, dpvars, orchvars, xvars>>

ScrapeNext ==
    \/ ScHandleCookies
    \/ ScEnterPostcode
    \/ ScSelectAddress
    \/ BTAttempt
    \/ ScReadCards
    \/ BTWaitForCards
    \/ BTRender
    \/ BTEnumerate
    \/ ScSwitch
    \/ RunTail

SpecScrape == ScrapeInit /\ [][ScrapeNext]_vars

\* ------------------------------------------------------------------------
\* The text functions of BaseScraper next to those of the DataProcessor
\* ------------------------------------------------------------------------
\* most pieces a text is made of
MaxTokens == 3

\* the pieces of the texts a page shows for a price, a speed or a contract
Tokens ==
    {<<"2">>, <<"5">>, <<".">>, <<",">>, <<"£">>, <<" ">>, <<"G", "b">>, <<"g", "i", "g">>,
     <<"M", "b", "p", "s">>, <<"y", "e", "a", "r", "s">>, <<"m", "o", "n", "t", "h", "s">>}

RECURSIVE Concat(_)
\* the text made of the pieces, in order
Concat(pieces) ==
    IF Len(pieces) = 0 THEN <<>>
    ELSE Concat(SubSeq(pieces, 1, Len(pieces) - 1)) \o pieces[Len(pieces)]

TextInputs == {None_} \cup {PyStr(Concat(ps)) : ps \in SeqsUpTo(Tokens, MaxTokens)}

\* a call that returned v, and one that raised ValueError
Returned(v) == [raised |-> FALSE, v |-> v]
ValueError == [raised |-> TRUE, v |-> None_]

NotComma(c) == c # ","

\* re.search(r'([\d.]+)', cs).group(1): the first run of digits and dots
\* (<<>>: no match)
SearchDigitsDots(cs) ==
    IF \A i \in 1..Len(cs) : ~DigitOrDot(cs[i]) THEN <<>>
    ELSE LET p == CHOOSE i \in 1..Len(cs) :
                    DigitOrDot(cs[i]) /\ \A j \in 1..(i - 1) : ~DigitOrDot(cs[j])
             e == CHOOSE j \in p..Len(cs) :
                    /\ \A m \in p..j : DigitOrDot(cs[m])
                    /\ (j = Len(cs) \/ ~DigitOrDot(cs[j + 1]))
         IN SubSeq(cs, p, e)

\* BaseScraper.extract_price: re.search(r'[\d,]+\.?\d*') on the text without
\* its commas, float() of the match
extract_price(text) ==
    IF ~Truthy(text) THEN None_
    ELSE LET match == SearchDecimal(SelectSeq(text.s, NotComma))
         IN IF match = <<>> THEN None_
            ELSE IF FloatOK(match) THEN PyFloat(FloatOf(match)) ELSE None_

\* BaseScraper.extract_speed: the float() of the gigabit branch is outside
\* any try, the one of the Mbps branch returns None on ValueError
extract_speed(text) ==
    IF ~Truthy(text) THEN Returned(None_)
    ELSE LET match == SearchDigitsDots(text.s)
         IN IF match = <<>> THEN Returned(None_)
            ELSE IF Contains(LowerText(text.s), <<"g", "b">>)
            THEN IF FloatOK(match) THEN Returned(PyFloat(FloatOf(match) * 1000))
                 ELSE ValueError
            ELSE IF FloatOK(match) THEN Returned(PyFloat(FloatOf(match)))
                 ELSE Returned(None_)

\* BaseScraper.extract_contract_length: int() of the first run of digits
extract_contract_length(text) ==
    IF ~Truthy(text) THEN None_
    ELSE LET match == SearchInt(text.s)
         IN IF match = <<>> THEN None_ ELSE PyInt(DigitsToNat(match))

\* a caller holds a text a page showed for one of the three fields
TextInit ==
    /\ tx_field \in {"price", "speed", "contract_length"}
    /\ tx_text \in TextInputs
    /\ tx_extracted = NotCalled
    /\ tx_cleaned = NotCalled
    /\ DPIdle
    /\ OrchIdle
    /\ ScrapeIdle
    /\ AddressIdle
    /\ GatherIdle
    /\ exit_status = NotExited
    /\ ConsentIdle

ExtractPrice ==
    /\ tx_field = "price"
    /\ tx_extracted = NotCalled
    /\ tx_extracted' = Returned(extract_price(tx_text))
    /\ UNCHANGED <<tx_field, tx_text, tx_cleaned, dpvars, orchvars, scvars, vvars, gvars, exit_status, cvars>>

CleanPrice ==
    /\ tx_field = "price"
    /\ tx_cleaned = NotCalled
    /\ tx_cleaned' = Returned(clean_price(tx_text))
    /\ UNCHANGED <<tx_field, tx_text, tx_extracted, dpvars, orchvars, scvars, vvars, gvars, exit_status, cvars>>

ExtractSpeed ==
    /\ tx_field = "speed"
    /\ tx_extracted = NotCalled
    /\ tx_extracted' = extract_speed(tx_text)
    /\ UNCHANGED <<tx_field, tx_text, tx_cleaned, dpvars, orchvars, scvars, vvars, gvars, exit_status, cvars>>

CleanSpeed ==
    /\ tx_field = "speed"
    /\ tx_cleaned = NotCalled
    /\ tx_cleaned' = Returned(clean_speed(tx_text))
    /\ UNCHANGED <<tx_field, tx_text, tx_extracted, dpvars, orchvars, scvars, vvars, gvars, exit_status, cvars>>

ExtractContractLength ==
    /\ tx_field = "contract_length"
    /\ tx_extracted = NotCalled
    /\ tx_extracted' = Returned(extract_contract_length(tx_text))
    /\ UNCHANGED <<tx_field, tx_text, tx_cleaned, dpvars, orchvars, scvars, vvars, gvars, exit_status, cvars>>

CleanContractLength ==
    /\ tx_field = "contract_length"
    /\ tx_cleaned = NotCalled
    /\ tx_cleaned' = Returned(clean_contract_length(tx_text))
    /\ UNCHANGED <<tx_field, tx_text, tx_extracted, dpvars, orchvars, scvars, vvars, gvars, exit_status, cvars>>

TextNext ==
    \/ ExtractPrice
    \/ CleanPrice
    \/ ExtractSpeed
    \/ CleanSpeed
    \/ ExtractContractLength
    \/ CleanContractLength

SpecText == TextInit /\ [][TextNext]_vars
\* ------------------------------------------------------------------------
\* Orchestrator._run_concurrent, task by task
\* ------------------------------------------------------------------------
GTasks == DOMAIN g_providers

\* what awaiting _run_scraper(providers[i]) gives gather: the list scrape()
\* returned (empty when scrape() raised), or the exception of the constructor
TaskOutcomes(i) == {Raised} \cup {ListOf(CardsOf(i, kinds)) : kinds \in CardLists}

\* _run_concurrent has created one task per provider and awaits gather
GatherInit ==
    /\ g_pc = "gather"
    /\ g_providers \in ProviderLists
    /\ g_outs = [i \in DOMAIN g_providers |-> NoValue]
    /\ g_finished = <<>>
    /\ g_all_results = <<>>
    /\ TextIdle
    /\ exit_status = NotExited
    /\ ConsentIdle
    /\ DPIdle
    /\ OrchIdle
    /\ ScrapeIdle
    /\ AddressIdle

\* one of the tasks under gather ends, at any time relative to the others
TaskFinishes(i) ==
    /\ g_pc = "gather"
    /\ g_outs[i] = NoValue
    /\ \E out \in TaskOutcomes(i) : g_outs' = [g_outs EXCEPT ![i] = out]
    /\ g_finished' = Append(g_finished, i)
    /\ UNCHANGED <<g_pc, g_providers, g_all_results, txvars, exit_status, dpvars,
                   orchvars, scvars, vvars, cvars>>

\* _run_concurrent with asyncio.as_completed in place of gather: the lists are
\* taken as the tasks end
RECURSIVE as_completed_results(_, _, _)
as_completed_results(outs, finished, k) ==
    IF k > Len(finished) THEN <<>>
    ELSE (IF outs[finished[k]].kind = "exc" THEN <<>> ELSE outs[finished[k]].deals)
            \o as_completed_results(outs, finished, k + 1)

RunConcurrent_as_completed ==
    /\ g_pc = "gather"
    /\ \A i \in GTasks : g_outs[i] # NoValue
    /\ g_all_results' = as_completed_results(g_outs, g_finished, 1)
    /\ g_pc' = "collected"
    /\ UNCHANGED <<g_providers, g_outs, g_finished, txvars, exit_status, dpvars,
                   orchvars, scvars, vvars, cvars>>

\* _run_concurrent once gather returned: zip(self.providers, results) walks the
\* results in the order of self.providers
RunConcurrent ==
    /\ g_pc = "gather"
    /\ \A i \in GTasks : g_outs[i] # NoValue
    /\ g_all_results' = gather_results(g_outs, 1)
    /\ g_pc' = "collected"
    /\ UNCHANGED <<g_providers, g_outs, g_finished, txvars, exit_status, dpvars,
                   orchvars, scvars, vvars, cvars>>

GatherNext ==
    \/ \E i \in GTasks : TaskFinishes(i)
    \/ RunConcurrent

SpecGather == GatherInit /\ [][GatherNext]_vars

\* ------------------------------------------------------------------------
\* main() around Orchestrator.run, from the point where the records of the
\* providers are collected
\* ------------------------------------------------------------------------
\* what the page of one provider yielded: nothing, records the validator
\* accepts, records whose price is above its range, or both
CollectedLists == CardLists \cup {<<"pricey">>}

\* a scraper whose _run_scraper returned the records of `kinds`
Finished(i, kinds) ==
    [NewScraper EXCEPT !.pc = "done", !.out = ListOf(CardsOf(i, kinds)),
                       !.extracted = FALSE, !.cards = kinds]

\* run() has collected all_results, in either mode, and is about to process them
MainInit ==
    /\ providers \in ProviderLists
    /\ concurrent \in BOOLEAN
    /\ o_pc = "collected"
    /\ idx = IF concurrent THEN 1 ELSE Len(providers) + 1
    /\ scrapers \in {[i \in DOMAIN providers |-> Finished(i, kinds[i])] :
                        kinds \in [DOMAIN providers -> CollectedLists]}
    /\ all_results = gather_results([i \in DOMAIN providers |-> scrapers[i].out], 1)
    /\ processed = <<>>
    /\ exported = {}
    /\ returned = NoValue
    /\ DPIdle
    /\ ScrapeIdle
    /\ XIdle

\* main() after `results = await orchestrator.run()`: 0 when the returned list
\* is non-empty, 1 when it is empty; an exception that left run() would end in
\* main()'s `except Exception` and give 1
main_status(results) ==
    IF results.kind = "list" /\ results.deals # <<>> THEN 0 ELSE 1

\* main() returns and the process exits with what it returned
Main ==
    /\ o_pc = "done"
    /\ exit_status = NotExited
    /\ exit_status' = <<main_status(returned)>>
    /\ UNCHANGED <<orchvars, dpvars, scvars, vvars, txvars, gvars, cvars>>

MainNext ==
    \/ ProcessAndExport
    \/ ReturnNothing
    \/ Main

SpecMain == MainInit /\ [][MainNext]_vars

\* ------------------------------------------------------------------------
\* handle_cookies of SkyScraper and VirginMediaScraper: the polling search for
\* a consent control. Times are in units of 100 ms; the session stays up
\* during the search
\* ------------------------------------------------------------------------
\* bound: child frames of the page
MaxFrames == 1

\* deadline = time.monotonic() + 12.0
Deadline == 120
\* loc.wait_for(state="visible", timeout=3500)
VisibleTimeout == 35
\* self.page.wait_for_timeout(300) at the end of a cycle
PollWait == 3
\* self.page.wait_for_timeout(600) after a click
SettleWait == 6
\* loc.click(timeout=...), plain and forced
ClickTimeout(p) == IF p = "sky" THEN 40 ELSE 35

\* the selector list in the order it is walked, each class of selectors
\* standing for its members: the hard-coded accept, reject and (Sky only)
\* generic class-based selectors, then those of the provider configuration
Selectors(p) ==
    IF p = "sky" THEN <<"accept", "reject", "generic", "configured">>
    ELSE <<"accept", "reject", "configured">>

\* how a control answers: plainly clickable; covered by an overlay, so that
\* only a forced or a script click goes through; not visible and clickable by
\* script only; or refusing all three clicks
Statuses == {"clickable", "covered", "hidden", "dead"}
Visible(status) == status \in {"clickable", "covered"}
Works(status) ==
    CASE status = "clickable" -> {"plain", "forced", "script"}
      [] status = "covered" -> {"forced", "script"}
      [] status = "hidden" -> {"script"}
      [] OTHER -> {}

\* the banner of one document: the classes of selectors that match a control
\* of it, and how its controls answer
NoBanner == [kinds |-> {}, status |-> "absent"]
Banners ==
    {NoBanner} \cup
    {[kinds |-> K, status |-> s] :
        K \in {{"accept"}, {"reject"}, {"generic"}, {"configured"}, {"accept", "reject"}},
        s \in Statuses}

FrameNames == <<"f1", "f2", "f3">>

\* the contexts a cycle goes through: self.page, then self.page.frames, whose
\* first member is the main frame of the page
Contexts(frames) == <<"page", "main">> \o frames
DocOf(ctx) == IF ctx = "page" THEN "main" ELSE ctx

\* one poll cycle with the two loops exchanged: every context per selector
CycleOrder_by_selector(p, frames) ==
    LET C == Contexts(frames)
        S == Selectors(p)
    IN [k \in 1..(Len(C) * Len(S)) |->
            [ctx |-> C[((k - 1) % Len(C)) + 1], sel |-> S[((k - 1) \div Len(C)) + 1]]]

\* one poll cycle: every selector on self.page, then every selector on each of
\* self.page.frames
CycleOrder(p, frames) ==
    LET C == Contexts(frames)
        S == Selectors(p)
    IN [k \in 1..(Len(C) * Len(S)) |->
            [ctx |-> C[((k - 1) \div Len(S)) + 1], sel |-> S[((k - 1) % Len(S)) + 1]]]

Stage(name, ok) == [stage |-> name, ok |-> ok]

\* the click chain without its script click
click_selector_no_script(p, status) ==
    IF status = "absent"
    THEN [found |-> FALSE, stages |-> <<>>, result |-> FALSE, took |-> 0]
    ELSE LET waited == IF Visible(status) THEN 0 ELSE VisibleTimeout
         IN IF "plain" \in Works(status)
            THEN [found |-> TRUE, stages |-> <<Stage("plain", TRUE)>>,
                  result |-> TRUE, took |-> waited]
            ELSE [found |-> TRUE,
                  stages |-> <<Stage("plain", FALSE),
                               Stage("forced", "forced" \in Works(status))>>,
                  result |-> "forced" \in Works(status),
                  took |-> waited + ClickTimeout(p)
                            + (IF "forced" \in Works(status) THEN 0 ELSE ClickTimeout(p))]

\* click_selector(ctx, sel) of Sky, one turn of click_any's loop of Virgin
\* Media, on a control that answers as `status`: count() == 0 gives False; else
\* wait for visible (its timeout is swallowed), click; on an exception forced
\* click; on an exception script click; on an exception False. A call that
\* times out takes its timeout, every other call no time
click_selector(p, status) ==
    IF status = "absent"
    THEN [found |-> FALSE, stages |-> <<>>, result |-> FALSE, took |-> 0]
    ELSE LET waited == IF Visible(status) THEN 0 ELSE VisibleTimeout
         IN IF "plain" \in Works(status)
            THEN [found |-> TRUE, stages |-> <<Stage("plain", TRUE)>>,
                  result |-> TRUE, took |-> waited]
            ELSE IF "forced" \in Works(status)
            THEN [found |-> TRUE,
                  stages |-> <<Stage("plain", FALSE), Stage("forced", TRUE)>>,
                  result |-> TRUE, took |-> waited + ClickTimeout(p)]
            ELSE [found |-> TRUE,
                  stages |-> <<Stage("plain", FALSE), Stage("forced", FALSE),
                               Stage("script", "script" \in Works(status))>>,
                  result |-> "script" \in Works(status),
                  took |-> waited + 2 * ClickTimeout(p)]

\* what the locator of selector class sel finds in context ctx now
StatusAt(ctx, sel) ==
    IF c_late \/ sel \notin c_page[DocOf(ctx)].kinds THEN "absent"
    ELSE c_page[DocOf(ctx)].status

\* handle_cookies is called on a loaded page, whose banner may come late
ConsentInit ==
    /\ c_pc = "while"
    /\ c_provider \in {"sky", "virgin_media"}
    /\ c_frames \in {SubSeq(FrameNames, 1, n) : n \in 0..MaxFrames}
    /\ c_page \in [{"main"} \cup {c_frames[k] : k \in DOMAIN c_frames} -> Banners]
    /\ c_late \in IF \A d \in DOMAIN c_page : c_page[d] = NoBanner THEN {FALSE} ELSE BOOLEAN
    /\ c_clock = 0
    /\ c_pos = 0
    /\ c_cycle = <<>>
    /\ c_result = <<>>
    /\ TextIdle
    /\ GatherIdle
    /\ exit_status = NotExited
    /\ DPIdle
    /\ OrchIdle
    /\ ScrapeIdle
    /\ AddressIdle

\* while time.monotonic() < deadline: a new cycle, or, past the deadline,
\* return False
WhileBeforeDeadline ==
    /\ c_pc = "while"
    /\ IF c_clock < Deadline
       THEN /\ c_pc' = "cycle"
            /\ c_pos' = 1
            /\ c_cycle' = <<>>
            /\ UNCHANGED c_result
       ELSE /\ c_pc' = "done"
            /\ c_result' = <<FALSE>>
            /\ UNCHANGED <<c_pos, c_cycle>>
    /\ UNCHANGED <<c_provider, c_frames, c_page, c_late, c_clock, txvars, gvars,
                   exit_status, dpvars, orchvars, scvars, vvars>>

\* the next attempt of the cycle; after a click that went through, the settle
\* wait and return True
ClickSelector ==
    /\ c_pc = "cycle"
    /\ c_pos <= Len(CycleOrder(c_provider, c_frames))
    /\ LET at == CycleOrder(c_provider, c_frames)[c_pos]
           a == click_selector(c_provider, StatusAt(at.ctx, at.sel))
       IN /\ c_cycle' = Append(c_cycle,
                [ctx |-> at.ctx, sel |-> at.sel, at |-> c_clock, found |-> a.found,
                 stages |-> a.stages, result |-> a.result])
          /\ IF a.result
             THEN /\ c_clock' = c_clock + a.took + SettleWait
                  /\ c_pc' = "done"
                  /\ c_result' = <<TRUE>>
                  /\ UNCHANGED c_pos
             ELSE /\ c_clock' = c_clock + a.took
                  /\ c_pos' = c_pos + 1
                  /\ UNCHANGED <<c_pc, c_result>>
    /\ UNCHANGED <<c_provider, c_frames, c_page, c_late, txvars, gvars, exit_status,
                   dpvars, orchvars, scvars, vvars>>

\* the cycle clicked nothing: wait_for_timeout(300); a banner that was late is
\* there when the wait is over
Poll ==
    /\ c_pc = "cycle"
    /\ c_pos > Len(CycleOrder(c_provider, c_frames))
    /\ c_clock' = c_clock + PollWait
    /\ c_late' = FALSE
    /\ c_pc' = "while"
    /\ UNCHANGED <<c_provider, c_frames, c_page, c_pos, c_cycle, c_result, txvars, gvars,
                   exit_status, dpvars, orchvars, scvars, vvars>>

ConsentNext ==
    \/ WhileBeforeDeadline
    \/ ClickSelector
    \/ Poll

SpecConsent == ConsentInit /\ [][ConsentNext]_vars

\* ------------------------------------------------------------------------
\* BTScraper._scrape_cards on a page that scrolls and renders its list again
\* ------------------------------------------------------------------------
\* the cards of such a page: those of CardKinds and a complete card without
\* an id attribute
EnumKinds == CardKinds \cup {"no_id"}

\* _scrape_cards has waited for the first card of the 24-month view
EnumInit ==
    /\ sc_pc = "enumerate"
    /\ sc_provider = "bt"
    /\ \E kind \in EnumKinds, label \in TechLabels :
        sc_page = [term |-> 24, label |-> label, rendered |-> <<kind>>]
    /\ sc_loop = NoLoop
    /\ sc_address = None_
    /\ sc_cookies = "-"
    /\ sc_entry = NoEntry
    /\ sc_all_deals = <<>>
    /\ sc_ret = NoValue
    /\ sc_processed = <<>>
    /\ sc_returned = NoValue
    /\ DPIdle
    /\ OrchIdle
    /\ XIdle

\* the page renders its list again while the enumeration runs, with a card
\* it did not show before ahead of the cards it showed: cards.nth(k) is now
\* the card that was at k - 1
BTRerender ==
    /\ sc_pc = "enumerate"
    /\ Len(sc_page.rendered) < MaxCards
    /\ \E kind \in EnumKinds :
        /\ \A k \in DOMAIN sc_page.rendered : sc_page.rendered[k] # kind
        /\ sc_page' = [sc_page EXCEPT !.rendered = <<kind>> \o @]
    /\ UNCHANGED <<sc_pc, sc_provider, sc_address, sc_cookies, sc_entry, sc_loop,
                   sc_all_deals, sc_ret, sc_processed, sc_returned, dpvars, orchvars, xvars>>

EnumNext ==
    \/ BTRender
    \/ BTRerender
    \/ BTEnumerate

SpecEnum == EnumInit /\ [][EnumNext]_vars


\* ----------------------------------------------------------------------------
\* Virgin Media's address step (VirginMediaScraper
\* .select_first_address_and_continue), one call over a live page
\* ----------------------------------------------------------------------------

\* how a control of the page answers a click: it is not there, a click
\* (plain or forced) lands on it, or both clicks raise
Controls == {"absent", "clickable", "dead"}

\* what the page shows when the step starts: the two heading texts the step
\* waits for, the FLAT 1 entry and the entry with the postcode of the list,
\* whether the keyboard answers, whether the "Please select an address"
\* error is visible after the selection, and the last "Check availability"
\* button
AddressPages ==
    [multi : BOOLEAN, single : BOOLEAN, flat1 : Controls, by_pc : Controls,
     keyboard : BOOLEAN, err_visible : BOOLEAN, button : Controls]

\* click_clickable_ancestor of the step: no element handle or a raising
\* click give False
click_clickable_ancestor(control) == control = "clickable"

\* _click_bottom_check_availability: False without a button or when both
\* clicks raise
click_bottom_check_availability(page) == page.button = "clickable"

\* the selection part of the multiple-matches branch: the operations made on
\* the list, in order
select_in_list(page) ==
    LET picked1 == page.flat1 # "absent" /\ click_clickable_ancestor(page.flat1)
        try_pc == ~picked1 /\ page.by_pc # "absent"
        picked2 == picked1 \/ (try_pc /\ click_clickable_ancestor(page.by_pc))
    IN  (IF page.flat1 # "absent" THEN <<"click_flat1">> ELSE <<>>)
        \o (IF try_pc THEN <<"click_postcode">> ELSE <<>>)
        \o (IF ~picked2 THEN <<"keyboard">> ELSE <<>>)
        \o (IF page.err_visible /\ page.flat1 # "absent"
            THEN <<"click_flat1">> ELSE <<>>)

\* the selection every branch made the way the multiple-matches branch does
address_operations_always_select(page) ==
    select_in_list(page) \o <<"confirm">>

\* the operations of the whole step: the branch is taken from is_multi, then
\* is_single, and every branch calls _click_bottom_check_availability once
address_operations(page) ==
    IF page.multi THEN select_in_list(page) \o <<"confirm">>
    ELSE IF page.single THEN <<"confirm">>
    ELSE <<"confirm">>

AddressInit ==
    /\ v_pc = "called"
    /\ v_page \in AddressPages
    /\ v_trace = <<>>
    /\ v_result = <<>>
    /\ DPIdle
    /\ OrchIdle
    /\ ScrapeIdle
    /\ TextIdle
    /\ GatherIdle
    /\ exit_status = NotExited
    /\ ConsentIdle

SelectFirstAddressAndContinue ==
    /\ v_pc = "called"
    /\ v_pc' = "returned"
    /\ v_trace' = address_operations(v_page)
    /\ v_result' = <<TRUE>>
    /\ UNCHANGED <<v_page, dpvars, orchvars, scvars, txvars, gvars, exit_status, cvars>>

SpecAddress == AddressInit /\ [][SelectFirstAddressAndContinue]_vars

\* ------------------------------------------------------------------------
\* VirginMediaScraper.extract_deals on a page of up to MaxButtons plans
\* ------------------------------------------------------------------------
\* most "Add to basket" buttons the plans page shows
MaxButtons == 5

\* the cards around the buttons: five complete plans with a name of their
\* own, a complete card without a plan name and a named card without price
VirginKinds == {"full", "slow", "m350", "gig1", "gig2", "no_id", "no_price"}

\* extract_deals is called on the plans page, its buttons in DOM order
VirginCardsInit ==
    /\ sc_pc = "cards"
    /\ sc_provider = "virgin_media"
    /\ \E kinds \in SeqsUpTo(VirginKinds, MaxButtons) :
        sc_page = [term |-> 24, label |-> L_full_fibre, rendered |-> kinds]
    /\ sc_loop = NoLoop
    /\ sc_address = None_
    /\ sc_cookies = "-"
    /\ sc_entry = NoEntry
    /\ sc_all_deals = <<>>
    /\ sc_ret = NoValue
    /\ sc_processed = <<>>
    /\ sc_returned = NoValue
    /\ DPIdle
    /\ OrchIdle
    /\ XIdle

VirginExtractDeals ==
    /\ sc_pc = "cards"
    /\ sc_provider = "virgin_media"
    /\ sc_pc' = "extracted"
    /\ sc_loop' = [NoLoop EXCEPT !.deals = virgin_extract_deals(sc_page.rendered).deals]
    /\ UNCHANGED <<sc_provider, sc_address, sc_cookies, sc_entry, sc_page, sc_all_deals,
                   sc_ret, sc_processed, sc_returned, dpvars, orchvars, xvars>>

SpecVirginCards == VirginCardsInit /\ [][VirginExtractDeals]_vars

\* ------------------------------------------------------------------------
\* BTScraper.scrape from the 24-month cards on, with the view the page
\* shows followed next to the contract_term handed to _scrape_cards
\* ------------------------------------------------------------------------
\* the 12-month tab: not on the page, its click switches the view (or opens
\* the modal), its click raises, or its click goes through without effect
Tabs == {"absent", "works", "raises", "inert"}

\* the confirmation modal after the tab click: none comes up, its button is
\* clicked by _click_switch_modal, or no click on it goes through
Modals == {"none", "confirmed", "stuck"}

\* _switch_to_12_month: what it returns and the view the page shows
\* afterwards.  The result of _click_switch_modal is dropped, and the wait
\* for cards that follows is content with the cards of either view
switch_to_12_month(tab, modal) ==
    [switched |-> tab \in {"works", "inert"},
     view |-> IF tab = "works" /\ modal # "stuck" THEN 12 ELSE 24]

\* scrape() has entered the postcode and waits for the 24-month cards
SwitchInit ==
    /\ sc_pc = "cards"
    /\ sc_provider = "bt"
    /\ \E label \in TechLabels :
        sc_page = [term |-> 24, label |-> label, rendered |-> <<>>, view |-> 24]
    /\ sc_loop = NoLoop
    /\ sc_address = None_
    /\ sc_cookies = "-"
    /\ sc_entry = NoEntry
    /\ sc_all_deals = <<>>
    /\ sc_ret = NoValue
    /\ sc_processed = <<>>
    /\ sc_returned = NoValue
    /\ DPIdle
    /\ OrchIdle
    /\ XIdle

\* step 4 of BTScraper.scrape: after a switch that returned true the cards
\* are read with contract_term = 12.  A page still on the 24-month view
\* keeps its cards, so that _wait_for_cards finds them at once
BTSwitchTo12Month ==
    /\ sc_pc = "switch"
    /\ sc_provider = "bt"
    /\ \E tab \in Tabs, modal \in Modals :
        LET r == switch_to_12_month(tab, modal)
        IN IF r.switched
           THEN /\ sc_pc' = IF r.view = 12 THEN "cards" ELSE "enumerate"
                /\ sc_page' = [sc_page EXCEPT !.term = 12, !.view = r.view,
                                              !.rendered = IF r.view = 12 THEN <<>> ELSE @]
                /\ sc_loop' = NoLoop
                /\ UNCHANGED sc_ret
           ELSE /\ ScrapeEnds(ListOf(sc_all_deals))
                /\ UNCHANGED <<sc_page, sc_loop>>
    /\ UNCHANGED <<sc_provider, sc_address, sc_cookies, sc_entry, sc_all_deals,
                   sc_processed, sc_returned, dpvars, orchvars, xvars>>

SwitchNext ==
    \/ BTWaitForCards
    \/ BTRender
    \/ BTEnumerate
    \/ BTSwitchTo12Month

SpecSwitch == SwitchInit /\ [][SwitchNext]_vars

\* ------------------------------------------------------------------------
\* Orchestrator.run from the collected records on, with _export_results
\* followed format by format
\* ------------------------------------------------------------------------
OutputFormats == {"csv", "excel", "json", "all"}

\* the list `formats` of _export_results
FormatList(output_format) ==
    IF output_format = "all" THEN <<"csv", "excel", "json">> ELSE <<output_format>>

\* the loop over the formats without the try around exporter.export: the
\* first failure ends it
export_results_no_try(output_format, results, failing) ==
    LET formats == FormatList(output_format)
        stop == {j \in DOMAIN formats : formats[j] \in failing}
        last == IF stop = {} THEN Len(formats) ELSE CHOOSE j \in stop : \A k \in stop : j <= k
    IN [j \in 1..last |->
            [format |-> formats[j], data |-> results, written |-> formats[j] \notin failing]]

\* the loop of _export_results: exporter.export(data=results, format=fmt,
\* ...) for each format, an exception logged and the loop going on; the
\* calls made, in order, with what each was handed and whether it wrote
export_results(output_format, results, failing) ==
    LET formats == FormatList(output_format)
    IN [j \in DOMAIN formats |->
            [format |-> formats[j], data |-> results, written |-> formats[j] \notin failing]]

\* run() has collected all_results; self.output_format is any of the four
ExportInit ==
    /\ providers \in ProviderLists
    /\ concurrent \in BOOLEAN
    /\ o_pc = "collected"
    /\ idx = IF concurrent THEN 1 ELSE Len(providers) + 1
    /\ scrapers \in {[i \in DOMAIN providers |-> Finished(i, kinds[i])] :
                        kinds \in [DOMAIN providers -> CollectedLists]}
    /\ all_results = gather_results([i \in DOMAIN providers |-> scrapers[i].out], 1)
    /\ processed = <<>>
    /\ \E output_format \in OutputFormats :
        exported = [output_format |-> output_format, calls |-> <<>>]
    /\ returned = NoValue
    /\ DPIdle
    /\ ScrapeIdle
    /\ XIdle

\* process_results, _export_results and the return of run(); the Exporter
\* constructor raising, before any format, ends in run()'s except clause
ProcessAndExportFormats ==
    /\ o_pc = "collected"
    /\ all_results # <<>>
    /\ \E t \in 1..MaxClock : processed' = process_results(Dicts(all_results), t)
    /\ \/ /\ \E failing \in SUBSET FormatsOf(exported.output_format) :
                exported' = [exported EXCEPT
                    !.calls = export_results(exported.output_format, processed', failing)]
          /\ returned' = ListOf(all_results)
       \/ /\ UNCHANGED exported
          /\ returned' = run_except(all_results)
    /\ o_pc' = "done"
    /\ UNCHANGED <<providers, concurrent, idx, all_results, scrapers, dpvars, scvars, xvars>>

ExportNext ==
    \/ ProcessAndExportFormats
    \/ ReturnNothing

SpecExport == ExportInit /\ [][ExportNext]_vars

\* ------------------------------------------------------------------------
\* Properties of the DataProcessor (checked under SpecDP)
\* ------------------------------------------------------------------------
\* the Deal invariant: provider, monthly_price and download_speed present and
\* not None, 0 < monthly_price <= 200, 10 <= download_speed <= 10000
DealInvariant(d) ==
    /\ Has(d, "provider") /\ d["provider"].k # "none"
    /\ IsNum(d["monthly_price"])
    /\ 0 < NumVal(d["monthly_price"]) /\ NumVal(d["monthly_price"]) <= 200 * Scale
    /\ IsNum(d["download_speed"])
    /\ 10 * Scale <= NumVal(d["download_speed"])
    /\ NumVal(d["download_speed"]) <= 10000 * Scale

AcceptedNow(d) == IsDict(d) /\ DealInvariant(NormalizeDict(d, dp_now))

\* C9: process_results drops every record that fails normalization or
\* validation and goes on with the next one: its output is the normalized
\* forms of the accepted records, in input order.
C9_ProcessResults ==
    dp_pc = "processed" =>
        LET accepted == SelectSeq(dp_list, AcceptedNow)
        IN dp_out = [i \in 1..Len(accepted) |-> NormalizeDict(accepted[i], dp_now)]

\* C9 witness: the first element made normalize_deal raise, a later one was
\* accepted and is in the output
C9_Witness ==
    /\ dp_pc = "processed"
    /\ Len(dp_list) >= 2
    /\ ~IsDict(dp_list[1])
    /\ AcceptedNow(dp_list[2])
    /\ Len(dp_out) = 1

NumericFields ==
    {"monthly_price", "upfront_cost", "download_speed", "upload_speed", "contract_length"}

\* C10 as claimed: normalizing twice gives the record of normalizing once, and
\* every numeric input value keeps its number.
C10_AsClaimed ==
    /\ dp_pc = "renormalized" => dp_norm2 = dp_norm
    /\ (dp_pc = "normalized" /\ ~dp_norm.raised) =>
            \A f \in NumericFields :
                IsNum(dp_deal[f]) =>
                    IsNum(dp_norm.v[f]) /\ NumVal(dp_norm.v[f]) = NumVal(dp_deal[f])

Abs(x) == IF x < 0 THEN 0 - x ELSE x

\* C10 amended: normalizing twice gives the record of normalizing once
\* (timestamp of the first call kept); a numeric monthly_price, upfront_cost,
\* download_speed, upload_speed and an int contract_length keep their number;
\* a float contract_length becomes the int of the first run of digits of its
\* text, the integer part of its absolute value.
C10_Idempotent ==
    /\ dp_pc = "renormalized" => dp_norm2 = dp_norm
    /\ (dp_pc = "normalized" /\ ~dp_norm.raised) =>
            \A f \in NumericFields :
                IsNum(dp_deal[f]) =>
                    IF f = "contract_length" /\ dp_deal[f].k = "float"
                    THEN dp_norm.v[f] = PyInt(Abs(dp_deal[f].n) \div Scale)
                    ELSE IsNum(dp_norm.v[f]) /\ NumVal(dp_norm.v[f]) = NumVal(dp_deal[f])

\* C10 witness: a record with text fields and no timestamp was normalized at
\* one clock reading and its result normalized again at a later one
C10_Witness ==
    /\ dp_pc = "renormalized"
    /\ dp_now2 > dp_now
    /\ ~Has(dp_deal, "extraction_timestamp")
    /\ dp_deal["monthly_price"].k = "str"
    /\ dp_deal["contract_length"].k = "float"
    /\ dp_norm.v["extraction_timestamp"] = Timestamp(dp_now)

\* ------------------------------------------------------------------------
\* Properties of the orchestrator and the scrapers (checked under Spec)
\* ------------------------------------------------------------------------
\* the records of scraper i in a result list, in list order
RecordsOf(deals, i) == SelectSeq(deals, LAMBDA d : d.src = i)

\* what provider i has to contribute to the result of the run: nothing when
\* an exception was raised in its run, else the records its extraction found
Expected(i) ==
    IF scrapers[i].failed # "none" THEN <<>> ELSE CardsOf(i, scrapers[i].cards)

\* C1: an exception raised while a provider's scrape runs (Virgin Media's
\* included) makes _run_scraper yield the empty list; no exception of a
\* provider reaches the caller of run(); every provider of the run is started
\* and run to its end, and the returned list holds the records of every
\* provider that did not fail and none of one that failed.
C1_ExceptionIsolation ==
    /\ \A i \in TaskIds :
            (scrapers[i].pc = "done" /\ scrapers[i].failed = "scrape")
                => scrapers[i].out = ListOf(<<>>)
    /\ o_pc = "done" =>
            /\ returned.kind = "list"
            /\ \A i \in TaskIds :
                    /\ scrapers[i].pc = "done"
                    /\ RecordsOf(returned.deals, i) = Expected(i)

\* C1 witness: a sequential run over Virgin Media and another provider has
\* returned; Virgin Media's scrape raised, the other provider's records are
\* what the run returned
C1_Witness ==
    /\ ~concurrent /\ o_pc = "done"
    /\ Len(providers) = 2
    /\ \E i, j \in TaskIds :
        /\ providers[i] = "virgin_media" /\ scrapers[i].failed = "scrape"
        /\ scrapers[j].failed = "none" /\ scrapers[j].cards # <<>>
        /\ returned = ListOf(CardsOf(j, scrapers[j].cards))

\* C2 as claimed, for the runs in which no close call raises: when
\* _run_scraper has returned, the browser and the Playwright driver of the
\* provider's session are closed, and no resource of any session is open when
\* run() has returned.
C2_SessionClosed ==
    /\ \A i \in TaskIds :
            (scrapers[i].pc = "done" /\ ~scrapers[i].close_raised)
                => scrapers[i].os \cap {"browser", "driver"} = {}
    /\ o_pc = "done" =>
            \A i \in TaskIds : ~scrapers[i].close_raised => scrapers[i].os = {}

\* C3: in concurrent mode, whichever tasks fail with an exception and however
\* the tasks interleave, run() returns a list that holds exactly the records
\* of the tasks that succeeded, and raises nothing.
C3_ConcurrentAggregation ==
    (concurrent /\ o_pc = "done") =>
        /\ returned.kind = "list"
        /\ \A k \in DOMAIN returned.deals : returned.deals[k].src \in TaskIds
        /\ \A i \in TaskIds :
                IF scrapers[i].out.kind = "exc" \/ scrapers[i].failed # "none"
                THEN RecordsOf(returned.deals, i) = <<>>
                ELSE RecordsOf(returned.deals, i) = CardsOf(i, scrapers[i].cards)

\* C3 witness: a concurrent run of two tasks has returned; the first task
\* failed with an exception, the second found records, and they are returned
C3_Witness ==
    /\ concurrent /\ o_pc = "done"
    /\ Len(providers) = 2
    /\ scrapers[1].out = Raised
    /\ scrapers[2].cards # <<>> /\ scrapers[2].failed = "none"
    /\ returned = ListOf(CardsOf(2, scrapers[2].cards))

\* C4 as claimed: every record of the list run() returned is normalized
\* (normalizing it again changes nothing) and satisfies the Deal invariant.
C4_ReturnedProcessed ==
    o_pc = "done" =>
        \A k \in DOMAIN returned.deals :
            LET d == Dicts(returned.deals)[k]
            IN DealInvariant(d) /\ NormalizeDict(d, 0) = d

\* C5: run() never raises, whichever providers fail and whatever processing
\* and export do: it returns a list, and the empty list when every provider
\* failed or found nothing.
C5_RunNeverRaises ==
    /\ returned.kind # "exc"
    /\ o_pc = "done" =>
            /\ returned.kind = "list"
            /\ (\A i \in TaskIds : scrapers[i].failed # "none" \/ scrapers[i].cards = <<>>)
                    => returned.deals = <<>>

\* C5 witness: a run over two providers has returned the empty list; one
\* provider's constructor raised, the other's scrape raised
C5_Witness ==
    /\ o_pc = "done"
    /\ Len(providers) = 2
    /\ scrapers[1].failed = "constructor"
    /\ scrapers[2].failed = "scrape"
    /\ returned = ListOf(<<>>)

\* C6 as claimed, for the runs in which no close call raises: in sequential
\* mode at most one provider session exists at any moment, and the scraper of
\* a later provider is created only after the _run_scraper of every earlier
\* one, close() included, is over.
C6_OneAtATime ==
    ~concurrent =>
        /\ \A i, j \in TaskIds :
                (/\ scrapers[i].os # {} /\ ~scrapers[i].close_raised
                 /\ scrapers[j].os # {} /\ ~scrapers[j].close_raised) => i = j
        /\ \A i, j \in TaskIds :
                (i < j /\ scrapers[j].pc # "new") => scrapers[i].pc = "done"

\* C7 as claimed: in every provider's scrape the address is selected only
\* after the postcode entry succeeded, and no cards are extracted after the
\* postcode entry reported failure.
C7_StepsSequential ==
    \A i \in TaskIds :
        /\ scrapers[i].address # "none" => scrapers[i].postcode = "ok"
        /\ scrapers[i].extracted => scrapers[i].postcode # "fail"

\* ------------------------------------------------------------------------
\* Properties of one scrape() call (checked under SpecScrape)
\* ------------------------------------------------------------------------
\* C11: every record that leaves the normalizer and validator with a contract
\* length carries total_contract_cost = monthly_price x contract_length +
\* upfront_cost, whichever provider built it and whoever filled the field.
C11_TotalContractCost ==
    \A k \in DOMAIN sc_processed :
        LET d == sc_processed[k]
        IN Truthy(Get(d, "contract_length")) =>
            /\ IsNum(Get(d, "total_contract_cost"))
            /\ NumVal(d["total_contract_cost"]) =
                    NumVal(d["monthly_price"]) * d["contract_length"].n
                    + (IF IsNum(Get(d, "upfront_cost")) THEN NumVal(d["upfront_cost"]) ELSE 0)

\* the cards of the view that show both a price and a speed and can be read
CompleteCards(kinds) ==
    {k \in DOMAIN kinds :
        Card(kinds[k]).price > 0 /\ Card(kinds[k]).speed > 0 /\ ~Card(kinds[k]).raises}

\* C12: a run over one provider whose page shows cards of which some lack a
\* download speed returns exactly one record per card with price and speed,
\* each with total_contract_cost computed, data_allowance "Unlimited" and a
\* non-empty extraction_timestamp (stated for the providers that read one
\* view of cards in a plain loop).
C12_EndToEnd ==
    (/\ sc_pc = "done"
     /\ sc_provider \in {"hyperoptic", "vodafone"}
     /\ \E k \in DOMAIN sc_page.rendered : Card(sc_page.rendered[k]).speed < 0)
    => /\ sc_returned.kind = "list"
       /\ Len(sc_returned.deals) = Cardinality(CompleteCards(sc_page.rendered))
       /\ \A k \in DOMAIN sc_returned.deals :
            LET d == sc_returned.deals[k]
            IN /\ Truthy(Get(d, "contract_length")) => IsNum(Get(d, "total_contract_cost"))
               /\ Get(d, "data_allowance") = PyStr(<<"Unlimited">>)
               /\ Truthy(Get(d, "extraction_timestamp"))

\* the scraper classes that pass over a card they have seen before
Deduping == {"bt", "virgin_media"}
\* the positions of the cards of a view whose records the view's read is to
\* give: the complete cards, each once for a class that dedupes
Kept(p, kinds) ==
    {k \in CompleteCards(kinds) :
        p \in Deduping => \A j \in 1..(k - 1) : kinds[j] # kinds[k]}
\* the j-th smallest position of a set of positions
Nth(S, j) == CHOOSE k \in S : Cardinality({m \in S : m < k}) = j - 1
\* the read of the current view has ended
ViewRead == sc_pc \in {"switch", "returned", "done"}

\* C13: a card without a resolvable price or speed, or whose read raises, is
\* dropped without an exception and without stopping the extraction of the
\* other cards: every deal of a view has a price and a speed, and when the
\* read of a view has ended its deals are those of the complete cards of the
\* view, in order (Sky reads packages from the page text, not cards).
C13_IncompleteCardsDropped ==
    /\ \A k \in DOMAIN sc_loop.deals :
            /\ IsNum(Get(sc_loop.deals[k], "monthly_price"))
            /\ IsNum(Get(sc_loop.deals[k], "download_speed"))
    /\ (ViewRead /\ sc_provider # "sky") =>
            LET kept == Kept(sc_provider, sc_page.rendered)
            IN /\ Len(sc_loop.deals) = Cardinality(kept)
               /\ \A j \in DOMAIN sc_loop.deals :
                    NumVal(sc_loop.deals[j]["download_speed"])
                        = NumVal(SpeedOf(Card(sc_page.rendered[Nth(kept, j)]).speed))
               /\ (sc_page.rendered # <<>> /\ sc_pc = "returned") => sc_ret.kind = "list"

\* a view whose first card cannot be read has been read to its end and the
\* complete card after it gave its deal
C13_Witness ==
    /\ ViewRead
    /\ sc_provider \in {"ee", "hyperoptic", "vodafone"}
    /\ Len(sc_page.rendered) = 2
    /\ Card(sc_page.rendered[1]).raises
    /\ Len(sc_loop.deals) = 1

\* C14: when the switch to the 12-month view fails, or the 12-month cards
\* cannot be read after it, scrape() returns all the 24-month deals it has
\* and no 12-month deal.
C14_SwitchFailureTolerated ==
    (/\ sc_pc = "returned"
     /\ sc_provider \in {"bt", "ee"}
     /\ sc_page.rendered = <<>> \/ sc_page.term = 24)
    => /\ sc_ret = ListOf(sc_all_deals)
       /\ \A k \in DOMAIN sc_ret.deals : sc_ret.deals[k]["contract_length"] = PyInt(24)

\* C15: the consent step never raises and returns true or false; when it
\* returns false (no banner, a banner that cannot be clicked, an error while
\* looking) the scrape still goes on to its next step.
C15_ConsentNeverBlocks ==
    sc_cookies # "-" =>
        /\ sc_cookies \in {"True", "False"}
        /\ sc_pc = AfterCookies(sc_provider)
        /\ sc_ret = NoValue

\* the consent step returned false and the scrape is at its
\* postcode step
C15_Witness ==
    /\ sc_cookies = "False"
    /\ sc_pc = "postcode"
    /\ sc_ret = NoValue

\* the cards of the view that are distinct: a card without an id attribute,
\* and the first card of each id
Distinct(kinds) ==
    {k \in DOMAIN kinds :
        Card(kinds[k]).id = "" \/ \A j \in 1..(k - 1) : Card(kinds[j]).id # Card(kinds[k]).id}

C17_BoundedRetry ==
    sc_provider = "bt" =>
        /\ sc_entry.attempt <= max_attempts
        /\ sc_entry.input <= 1
        /\ sc_entry.cards_loaded <=> sc_entry.result = "True"
        /\ sc_entry.result = "False" =>
            /\ sc_entry.attempt = max_attempts
            /\ sc_pc \in {"returned", "done"}
            /\ sc_ret = ListOf(<<>>)
            /\ sc_loop = NoLoop

\* C18: when candidate addresses are presented, the first candidate that
\* equals or contains the preferred address (letter case aside) is selected;
\* when none does, or no preferred address is given, the first candidate
\* after the placeholder is selected; the address step reports success in
\* both cases (BT's address step has no result of its own).
C18_AddressPreference ==
    sc_entry.candidates # <<>> =>
        LET candidates == sc_entry.candidates
            matching == IF Truthy(sc_address)
                        THEN {k \in DOMAIN candidates :
                                Contains(LowerText(candidates[k]), LowerText(sc_address.s))}
                        ELSE {}
        IN /\ sc_entry.selected = (IF matching # {} THEN FirstOf(matching) ELSE 1)
           /\ sc_provider # "bt" => sc_entry.result = "True"

\* the technology labels of the copper / FTTC class
CopperClass == {PyStr(<<"Copper">>), PyStr(<<"FTTC">>)}

\* C19: the technology_type of every extracted card is the page's explicit
\* copper/fibre label when the page shows one; when it shows none it is
\* inferred from the download speed: a copper/FTTC-class label below
\* 100 Mbps, FTTP at or above.
C19_TechnologyClassification ==
    \A k \in DOMAIN sc_loop.deals :
        LET d == sc_loop.deals[k]
        IN IF sc_page.label # <<>>
           THEN Get(d, "technology_type") = get_page_technology(sc_page.label)
           ELSE IF NumVal(d["download_speed"]) < 100 * Scale
           THEN Get(d, "technology_type") \in CopperClass
           ELSE Get(d, "technology_type") = PyStr(<<"FTTP">>)

\* the five values of the technology type enum
TechnologyEnum ==
    {PyStr(<<"Copper">>), PyStr(<<"FTTC">>), PyStr(<<"FTTP">>), PyStr(<<"Cable">>),
     PyStr(<<"Unknown">>)}

\* C20: the technology_type of every deal a scrape() returns, when the deal
\* has one, is one of Copper, FTTC, FTTP, Cable, Unknown.
C20_TechnologyEnum ==
    \A k \in DOMAIN sc_ret.deals :
        Has(sc_ret.deals[k], "technology_type")
            => sc_ret.deals[k]["technology_type"] \in TechnologyEnum

\* ------------------------------------------------------------------------
\* Properties of the text functions (checked under SpecText)
\* ------------------------------------------------------------------------
Called(r) == r # NotCalled
DigitTokens == {"2", "5"}
T_years == <<"y", "e", "a", "r", "s">>
T_months == <<"m", "o", "n", "t", "h", "s">>
\* the pieces without a digit, a dot or a comma
Separators == {t \in Tokens : \A i \in 1..Len(t) : ~DigitOrDot(t[i]) /\ t[i] # ","}
\* the text has no digit
NoDigit(text) == ~Truthy(text) \/ \A i \in 1..Len(text.s) : ~IsDigit(text.s[i])

\* C21: extract_contract_length and clean_contract_length both return
\* N x 12 for a text giving N years and N for a text giving N months, and
\* they return the same months for every text.
C21_ContractLengthUnits ==
    tx_field = "contract_length" =>
        /\ (Called(tx_extracted) /\ Called(tx_cleaned)) => tx_extracted = tx_cleaned
        /\ \A d \in DigitTokens, r \in {tx_extracted, tx_cleaned} :
            /\ (Called(r) /\ tx_text = PyStr(<<d, " ">> \o T_years))
                    => r = Returned(PyInt(12 * DigitVal(d)))
            /\ (Called(r) /\ tx_text = PyStr(<<d, " ">> \o T_months))
                    => r = Returned(PyInt(DigitVal(d)))

\* C22: extract_price and clean_price return none for a text that is empty,
\* None or without a digit, and the first number for a text holding several
\* numbers.
C22_FirstPrice ==
    tx_field = "price" =>
        \A r \in {tx_extracted, tx_cleaned} :
            Called(r) =>
                /\ NoDigit(tx_text) => r = Returned(None_)
                /\ \A a \in DigitTokens, b \in DigitTokens, sep \in Separators :
                        tx_text = PyStr(<<a>> \o sep \o <<b>>)
                            => r = Returned(PyFloat(DigitVal(a) * Scale))

\* C23: extract_speed and clean_speed return the first number x 1000 for a
\* text with a gigabit unit, the first number for a text without, none for a
\* text that is empty, None or without a number, and agree on every text.
C23_SpeedUnits ==
    tx_field = "speed" =>
        /\ (Called(tx_extracted) /\ Called(tx_cleaned)) => tx_extracted = tx_cleaned
        /\ \A r \in {tx_extracted, tx_cleaned} :
            Called(r) =>
                /\ NoDigit(tx_text) => r = Returned(None_)
                /\ \A d \in DigitTokens :
                    /\ tx_text = PyStr(<<d, "G", "b">>)
                            => r = Returned(PyFloat(DigitVal(d) * 1000 * Scale))
                    /\ tx_text = PyStr(<<d, "M", "b", "p", "s">>)
                            => r = Returned(PyFloat(DigitVal(d) * Scale))

\* ------------------------------------------------------------------------
\* Properties of _run_concurrent (checked under SpecGather)
\* ------------------------------------------------------------------------
\* the place of task i in the order the tasks ended in
FinishedAt(i) == CHOOSE k \in DOMAIN g_finished : g_finished[k] = i

\* C24 as claimed: the records are aggregated in provider-completion order, a
\* record of a task that ended earlier coming before every record of a task
\* that ended later.
C24_CompletionOrder ==
    g_pc = "collected" =>
        \A a, b \in DOMAIN g_all_results :
            FinishedAt(g_all_results[a].src) < FinishedAt(g_all_results[b].src) => a < b

\* C24, amended: the records are aggregated in the order of the provider
\* list, whatever order the tasks ended in: the records of a provider come
\* before those of every provider listed after it, each provider's records in
\* the order its task returned them.
C24_ProviderOrder ==
    g_pc = "collected" =>
        /\ \A a, b \in DOMAIN g_all_results :
                g_all_results[a].src < g_all_results[b].src => a < b
        /\ \A i \in GTasks :
                RecordsOf(g_all_results, i) = g_outs[i].deals

\* C24 witness: the second provider's task ended first, both tasks returned
\* records, and the first provider's records come first
C24_Witness ==
    /\ g_pc = "collected"
    /\ g_finished = <<2, 1>>
    /\ g_outs[1].deals # <<>> /\ g_outs[2].deals # <<>>
    /\ g_all_results[1].src = 1
    /\ g_all_results[Len(g_all_results)].src = 2

\* ------------------------------------------------------------------------
\* Further properties of the orchestrator (checked under Spec)
\* ------------------------------------------------------------------------
\* C25: in concurrent mode every task has a scraper object, attributes and
\* session of its own: whatever the interleaving, a step changes the scraper
\* and session of one running task only, and leaves those of every other task
\* as they were.
C25_TaskIsolation ==
    [][concurrent =>
        \A i \in TaskIds :
            scrapers'[i] # scrapers[i] =>
                /\ Running(i)
                /\ \A j \in TaskIds \ {i} : scrapers'[j] = scrapers[j]]_vars

\* C25 witness: of two concurrent tasks the first has extracted records and
\* closed its session, and the page of the second is still open
C25_Witness ==
    /\ concurrent /\ o_pc = "gather"
    /\ Len(providers) = 2
    /\ scrapers[1].pc = "done" /\ scrapers[1].cards # <<>> /\ scrapers[1].os = NoSession
    /\ scrapers[2].pc = "extract" /\ "page" \in scrapers[2].os

\* C27 as claimed: in sequential mode the loop passes from one provider to
\* the next only through the 3-second sleep, whether the earlier provider's
\* run gave records, nothing or an exception.
C27_DelayBetweenProviders ==
    [][(~concurrent /\ idx' # idx /\ idx' \in TaskIds) => o_pc = "sleep"]_vars

\* ------------------------------------------------------------------------
\* Properties of main() (checked under SpecMain)
\* ------------------------------------------------------------------------
\* C26 as claimed: the exit status is 0 exactly when the final validated
\* result of the run holds at least one record, and non-zero when every
\* provider failed, nothing was found or every record was rejected.
C26_ExitStatus ==
    exit_status # NotExited =>
        (exit_status = <<0>> <=> processed # <<>>)

\* ------------------------------------------------------------------------
\* Properties of the consent search (checked under SpecConsent)
\* ------------------------------------------------------------------------
ClickStages == <<"plain", "forced", "script">>

\* C28: the click on a located consent control goes plain click, forced
\* click, script click, in that order; a later stage is tried only after the
\* one before it failed; the attempt succeeds as soon as a stage does and fails
\* only when all three did; a control that is not found gives failure and no
\* stage is tried, and handle_cookies returns a bool.
C28_ClickEscalation ==
    /\ c_result \in {<<>>, <<TRUE>>, <<FALSE>>}
    /\ \A k \in DOMAIN c_cycle :
        LET a == c_cycle[k]
            n == Len(a.stages)
        IN /\ ~a.found => (n = 0 /\ ~a.result)
           /\ a.found => n >= 1
           /\ n <= Len(ClickStages)
           /\ \A j \in 1..n : a.stages[j].stage = ClickStages[j]
           /\ \A j \in 1..n :
                a.stages[j].ok <=> ClickStages[j] \in Works(StatusAt(a.ctx, a.sel))
           /\ \A j \in 1..(n - 1) : ~a.stages[j].ok
           /\ a.result <=> (n >= 1 /\ a.stages[n].ok)
           /\ (a.found /\ ~a.result) => n = Len(ClickStages)

\* C28 witness: a control was found, its plain and forced clicks failed, the
\* script click went through, and handle_cookies returned True
C28_Witness ==
    /\ c_result = <<TRUE>>
    /\ LET a == c_cycle[Len(c_cycle)]
       IN /\ a.found /\ a.result
          /\ Len(a.stages) = 3
          /\ ~a.stages[1].ok /\ ~a.stages[2].ok /\ a.stages[3].ok

\* the main document comes before the child frames; accept selectors before
\* reject selectors before generic ones before configured ones
DocRank(ctx) == IF DocOf(ctx) = "main" THEN 0 ELSE 1
KindRank(sel) ==
    CASE sel = "accept" -> 1
      [] sel = "reject" -> 2
      [] sel = "generic" -> 3
      [] OTHER -> 4

\* C29: within a poll cycle the attempts go through the selectors in priority
\* order on the main document first and on the child frames after it, nothing
\* is tried after a click that went through, and when the control clicked is
\* not an accept control, the accept selectors were tried before it in that
\* cycle, on its own context and on every context before it, and none could
\* be clicked.
C29_SelectorPriority ==
    /\ \A a, b \in DOMAIN c_cycle :
        a < b =>
            /\ ~c_cycle[a].result
            /\ DocRank(c_cycle[a].ctx) <= DocRank(c_cycle[b].ctx)
            /\ c_cycle[a].ctx = c_cycle[b].ctx =>
                    KindRank(c_cycle[a].sel) < KindRank(c_cycle[b].sel)
    /\ \A k \in DOMAIN c_cycle :
        c_cycle[k].result =>
            /\ c_pc = "done" /\ c_result = <<TRUE>>
            /\ c_cycle[k].sel # "accept" =>
                    \A m \in 1..k :
                        \E j \in 1..k :
                            /\ j < k
                            /\ c_cycle[j].ctx = c_cycle[m].ctx
                            /\ c_cycle[j].sel = "accept"
                            /\ ~c_cycle[j].result

\* C29 witness: the main document shows a reject control and a child frame an
\* accept control, both clickable; the reject control of the main document is
\* the one clicked, after the accept selectors found nothing there
C29_Witness ==
    /\ c_result = <<TRUE>>
    /\ c_frames = <<"f1">>
    /\ c_page["main"] = [kinds |-> {"reject"}, status |-> "clickable"]
    /\ c_page["f1"] = [kinds |-> {"accept"}, status |-> "clickable"]
    /\ c_cycle[Len(c_cycle)].ctx = "page"
    /\ c_cycle[Len(c_cycle)].sel = "reject"
    /\ c_cycle[1].sel = "accept" /\ ~c_cycle[1].found

\* C30 as claimed: the search ends by its deadline: no attempt on a selector
\* begins after the deadline, and handle_cookies has returned by the deadline
\* and the one wait that may follow it.
C30_SearchDeadline ==
    /\ \A k \in DOMAIN c_cycle : c_cycle[k].at <= Deadline
    /\ c_pc = "done" => c_clock <= Deadline + SettleWait

\* ----------------------------------------------------------------------------
\* Properties of the cleanup in _run_scraper (checked under Spec)
\* ----------------------------------------------------------------------------

\* C38: scraper.close() never raises, whatever the session holds and
\* whichever close call fails, so that a task constructed by _run_scraper
\* ends with the value its try/except made of scrape(): the cards read, or
\* the empty list
C38_CloseNeverRaises ==
    \A i \in TaskIds :
        (scrapers[i].pc = "done" /\ scrapers[i].failed # "constructor") =>
            /\ scrapers[i].out.kind = "list"
            /\ scrapers[i].failed = "none" =>
                 scrapers[i].out = ListOf(CardsOf(i, scrapers[i].cards))

\* a close call raised inside close() after a scrape that returned a record
C38_Witness ==
    \E i \in TaskIds :
        /\ scrapers[i].pc = "done"
        /\ scrapers[i].close_raised
        /\ scrapers[i].failed = "none"
        /\ scrapers[i].out.kind = "list"
        /\ scrapers[i].out.deals # <<>>

\* ------------------------------------------------------------------------
\* Further properties of one scrape() call (checked under SpecScrape)
\* ------------------------------------------------------------------------
\* C31: BT's enumeration ends only on the third consecutive cycle that finds
\* the cursor at the rendered card count; the counter of such cycles grows by
\* one on each of them and goes back to 0 on every cycle that finds an
\* unvisited card, so that a card rendered after one or two empty cycles is
\* visited.
C31_NoProgressCycles ==
    [][(sc_pc = "enumerate" /\ sc_loop' # sc_loop) =>
        IF sc_loop.index >= Len(sc_page.rendered)
        THEN /\ sc_loop'.stable_cycles = sc_loop.stable_cycles + 1
             /\ sc_loop'.index = sc_loop.index
             /\ sc_pc' # "enumerate" <=> sc_loop'.stable_cycles = 3
        ELSE /\ sc_loop'.stable_cycles = 0
             /\ sc_loop'.index = sc_loop.index + 1
             /\ sc_pc' = "enumerate"
             /\ \/ sc_loop.index + 1 \in {sc_loop'.parsed[k] : k \in DOMAIN sc_loop'.parsed}
                \/ Card(sc_page.rendered[sc_loop.index + 1]).id \in sc_loop.seen_ids]_vars

\* C31 witness: after the first card was parsed two cycles found nothing
\* new, and a second card is rendered now: the enumeration has not ended and
\* its next cycle visits that card
C31_Witness ==
    /\ sc_provider = "bt" /\ sc_pc = "enumerate"
    /\ sc_loop.index = 1 /\ sc_loop.parsed = <<1>>
    /\ sc_loop.stable_cycles = 2
    /\ Len(sc_page.rendered) = 2

\* C36: every deal a provider's scrape returns carries a postcode field
\* equal to the postcode scrape() was called with
C36_DealsCarryPostcode ==
    sc_pc = "returned" =>
        \A j \in DOMAIN sc_ret.deals : Get(sc_ret.deals[j], "postcode") = PyStr(Postcode)

\* C37: in BaseScraper.scrape, run by Vodafone, a false result of
\* enter_postcode or of select_address ends the run: no card is read
\* (extract_deals is not called), the page is left as it is, and scrape()
\* returns the empty list
C37_FalseStepEndsRun ==
    (sc_provider = "vodafone" /\ sc_entry.result = "False") =>
        /\ sc_pc \in {"returned", "done"}
        /\ sc_ret = ListOf(<<>>)
        /\ sc_page = NoPage
        /\ sc_loop = NoLoop
        /\ sc_all_deals = <<>>

\* the postcode was entered and select_address returned false
C37_Witness ==
    /\ sc_provider = "vodafone"
    /\ sc_pc = "returned"
    /\ sc_entry.input = 1
    /\ sc_entry.result = "False"
    /\ sc_ret = ListOf(<<>>)

\* ------------------------------------------------------------------------
\* Properties of BT's card enumeration under re-rendering (checked under
\* SpecEnum)
\* ------------------------------------------------------------------------
\* C32 as claimed: within one enumeration no card is counted twice, whatever
\* the page scrolls and renders again: there are no more parses than elements
\* rendered, and no two deals of the enumeration come from the same card
\* (every card of a page has a look of its own, so that two equal deals are
\* one card counted twice).
C32_NoCardTwice ==
    sc_provider = "bt" =>
        /\ Len(sc_loop.parsed) <= Len(sc_page.rendered)
        /\ \A a, b \in DOMAIN sc_loop.deals : a # b => sc_loop.deals[a] # sc_loop.deals[b]

\* ----------------------------------------------------------------------------
\* Properties of Virgin Media's address step (checked under SpecAddress)
\* ----------------------------------------------------------------------------

\* the operations of the trace that select an address in the list
SelectionOps == {"click_flat1", "click_postcode", "keyboard"}

\* C33: the address step takes its branch from what the page shows: with the
\* multiple-matches state detected it makes an address selection and then the
\* confirm click, without it (single match or neither state) it makes the
\* confirm click and no selection; in every branch the confirm click is
\* attempted exactly once, as the last operation, and the step returns true
C33_AddressBranches ==
    v_pc = "returned" =>
        /\ v_result = <<TRUE>>
        /\ Cardinality({i \in DOMAIN v_trace : v_trace[i] = "confirm"}) = 1
        /\ v_trace[Len(v_trace)] = "confirm"
        /\ v_page.multi =>
             \E i \in 1..(Len(v_trace) - 1) : v_trace[i] \in SelectionOps
        /\ ~v_page.multi => v_trace = <<"confirm">>

\* the multiple-matches state next to the single-match text: FLAT 1 is
\* clicked, then the confirm button
C33_Witness ==
    /\ v_pc = "returned"
    /\ v_page.multi
    /\ v_page.single
    /\ v_trace = <<"click_flat1", "confirm">>
    /\ v_result = <<TRUE>>

\* ----------------------------------------------------------------------------
\* Properties of Virgin Media's extract_deals (checked under SpecVirginCards)
\* ----------------------------------------------------------------------------

\* the first card of the page that shows this plan name, 0 for none
FirstCardNamed(name) ==
    LET at == {k \in DOMAIN sc_page.rendered :
                   PyStr(<<Card(sc_page.rendered[k]).id>>) = name}
    IN IF at = {} THEN 0 ELSE CHOOSE k \in at : \A m \in at : k <= m

C35_TwelveFromTwelveView ==
    [][\A j \in DOMAIN sc_loop'.deals :
          (j > Len(sc_loop.deals)
           /\ Get(sc_loop'.deals[j], "contract_length") = PyInt(12))
          => sc_page.view = 12]_vars

\* ----------------------------------------------------------------------------
\* Properties of the export (checked under SpecExport)
\* ----------------------------------------------------------------------------

\* C39: an export that fails in one format keeps neither the other requested
\* formats from being attempted nor run() from returning the list it
\* collected; every call of the exporter is handed the processed records,
\* each of which passed validate_deal
C39_ExportIsolation ==
    (o_pc = "done" /\ all_results # <<>>) =>
        /\ returned = ListOf(all_results)
        /\ exported.calls # <<>> =>
             [j \in DOMAIN exported.calls |-> exported.calls[j].format]
                 = FormatList(exported.output_format)
        /\ \A j \in DOMAIN exported.calls :
             /\ exported.calls[j].data = processed
             /\ \A k \in DOMAIN processed : validate_deal(processed[k]) = "True"

\* all three formats requested, the first fails, the other two are written,
\* with a record to write
C39_Witness ==
    /\ o_pc = "done"
    /\ exported.output_format = "all"
    /\ Len(exported.calls) = 3
    /\ ~exported.calls[1].written
    /\ exported.calls[2].written
    /\ exported.calls[3].written
    /\ processed # <<>>
    /\ returned = ListOf(all_results)

====
